---------------------------- MODULE Spec2Model ----------------------------
(***************************************************************************)
(* A model of the musicmood analyzer: the sentiment scoring engine         *)
(* (src/src/sentiment_analyzer.py), the SQLite record store                *)
(* (src/src/database.py) and the lyric fetcher's provider fallback         *)
(* (src/src/lyrics_fetcher.py).                                            *)
(*                                                                         *)
(* Text is a sequence of Unicode code points (Latin-1 range), so that      *)
(* strip, re.sub, split, lower and the substring test `a in b` are         *)
(* computed character by character.  Python floats are modelled by exact   *)
(* rationals <<n, d>> with d > 0, kept in lowest terms.  The emotion       *)
(* name 'esperanca' is written without its cedilla.                        *)
(***************************************************************************)
EXTENDS Integers, Sequences, FiniteSets, TLC

(***************************************************************************)
(* Exact rational arithmetic standing for the float arithmetic of the      *)
(* scorers.                                                                *)
(***************************************************************************)
RECURSIVE GCD(_, _)
GCD(a, b) == IF b = 0 THEN a ELSE GCD(b, a % b)

Abs(n) == IF n < 0 THEN -n ELSE n

Q(n, d) ==
  LET g == GCD(Abs(n), d)
  IN  <<n \div g, d \div g>>

Zero == Q(0, 1)

One == Q(1, 1)

QAdd(a, b) == Q(a[1] * b[2] + b[1] * a[2], a[2] * b[2])

QMul(a, b) == Q(a[1] * b[1], a[2] * b[2])

QLess(a, b) == a[1] * b[2] < b[1] * a[2]

QLeq(a, b) == a[1] * b[2] <= b[1] * a[2]

QMin(a, b) == IF QLess(b, a) THEN b ELSE a

QAbs(a) == <<Abs(a[1]), a[2]>>

(***************************************************************************)
(* Sequence helpers.                                                       *)
(***************************************************************************)
Range(s) == {s[i] : i \in 1..Len(s)}

\* The sequence s with every element computed.
AsTuple(s) == SubSeq(s, 1, Len(s))

Take(s, n) == SubSeq(s, 1, IF n < Len(s) THEN n ELSE Len(s))

\* Body applied to the value of v, which is computed once.
Eval(v, Body(_)) == CHOOSE r \in {Body(x) : x \in {v}} : TRUE

RECURSIVE Concat(_)
Concat(ss) == IF ss = <<>> THEN <<>> ELSE Head(ss) \o Concat(Tail(ss))

\* Python's `a in b` on strings.
IsSubstring(a, b) ==
  \E i \in 0..(Len(b) - Len(a)) : SubSeq(b, i + 1, i + Len(a)) = a

(***************************************************************************)
(* Character classes of Python's str.strip, re `\s`, re `\w` and           *)
(* str.lower, on the code points 0..255.                                   *)
(***************************************************************************)
NL == 10

SP == 32

IsSpace(c) == c \in {9, 10, 11, 12, 13, 28, 29, 30, 31, 32, 133, 160}

IsWordChar(c) ==
  \/ c \in 48..57
  \/ c \in 65..90
  \/ c = 95
  \/ c \in 97..122
  \/ c \in {170, 181, 186}
  \/ c \in (192..255) \ {215, 247}

\* The punctuation the normalizer keeps: . , ! ? ; : -
IsKeptPunct(c) == c \in {46, 44, 33, 63, 59, 58, 45}

Lower(c) ==
  IF c \in 65..90 \/ c \in (192..222) \ {215} THEN c + 32 ELSE c

RECURSIVE LStrip(_)
LStrip(s) == IF s # <<>> /\ IsSpace(Head(s)) THEN LStrip(Tail(s)) ELSE s

RECURSIVE RStrip(_)
RStrip(s) ==
  IF s # <<>> /\ IsSpace(s[Len(s)]) THEN RStrip(SubSeq(s, 1, Len(s) - 1)) ELSE s

\* str.strip()
Strip(s) == RStrip(LStrip(s))

\* The elements of a set of numbers in ascending order.
Ascending(S) ==
  [k \in 1..Cardinality(S) |->
     CHOOSE i \in S : Cardinality({j \in S : j < i}) = k - 1]

\* The pieces of s between the positions of cuts, which are left out.
SplitAt(s, cuts) ==
  LET c == <<0>> \o Ascending(cuts) \o <<Len(s) + 1>>
  IN  AsTuple([k \in 1..(Len(c) - 1) |-> SubSeq(s, c[k] + 1, c[k + 1] - 1)])

\* str.split(sep) for a one-character separator: the list of pieces,
\* empty pieces included.
Split(s, sep) == SplitAt(s, {i \in 1..Len(s) : s[i] = sep})

\* sep.join(parts)
RECURSIVE Join(_, _)
Join(parts, sep) ==
  IF parts = <<>> THEN <<>>
  ELSE IF Len(parts) = 1 THEN parts[1]
  ELSE parts[1] \o sep \o Join(Tail(parts), sep)

(***************************************************************************)
(* The lexicon and the intensifier table, as the constructor builds them.  *)
(* EmotionOrder is the insertion order of the emotion_keywords dict.       *)
(***************************************************************************)
EmotionOrder ==
  <<"tristeza", "raiva", "felicidade", "medo", "esperanca", "nostalgia">>

Emotions == Range(EmotionOrder)

NEUTRO == "neutro"

NONE == "None"

LoadEmotionKeywords ==
     ("tristeza" :> <<
        <<115, 97, 100>>,  \* sad
        <<99, 114, 121>>,  \* cry
        <<116, 101, 97, 114, 115>>,  \* tears
        <<112, 97, 105, 110>>,  \* pain
        <<104, 117, 114, 116>>,  \* hurt
        <<98, 114, 111, 107, 101, 110>>,  \* broken
        <<108, 111, 110, 101, 108, 121>>,  \* lonely
        <<101, 109, 112, 116, 121>>,  \* empty
        <<100, 101, 112, 114, 101, 115, 115, 105, 111, 110>>,  \* depression
        <<115, 111, 114, 114, 111, 119>>,  \* sorrow
        <<103, 114, 105, 101, 102>>,  \* grief
        <<109, 101, 108, 97, 110, 99, 104, 111, 108, 121>>,  \* melancholy
        <<100, 101, 115, 112, 97, 105, 114>>,  \* despair
        <<104, 111, 112, 101, 108, 101, 115, 115>>,  \* hopeless
        <<116, 114, 105, 115, 116, 101>>,  \* triste
        <<99, 104, 111, 114, 97, 114>>,  \* chorar
        <<108, 225, 103, 114, 105, 109, 97, 115>>,  \* l{U+00E1}grimas
        <<100, 111, 114>>,  \* dor
        <<109, 97, 99, 104, 117, 99, 97, 100, 111>>,  \* machucado
        <<113, 117, 101, 98, 114, 97, 100, 111>>,  \* quebrado
        <<115, 111, 122, 105, 110, 104, 111>>,  \* sozinho
        <<118, 97, 122, 105, 111>>,  \* vazio
        <<100, 101, 112, 114, 101, 115, 115, 227, 111>>,  \* depress{U+00E3}o
        <<116, 114, 105, 115, 116, 101, 122, 97>>,  \* tristeza
        <<100, 101, 115, 101, 115, 112, 101, 114, 111>>,  \* desespero
        <<115, 101, 109, 32, 101, 115, 112, 101, 114, 97, 110, 231, 97>>  \* sem esperan{U+00E7}a
      >>)
  @@ ("raiva" :> <<
        <<97, 110, 103, 114, 121>>,  \* angry
        <<114, 97, 103, 101>>,  \* rage
        <<104, 97, 116, 101>>,  \* hate
        <<109, 97, 100>>,  \* mad
        <<102, 117, 114, 105, 111, 117, 115>>,  \* furious
        <<112, 105, 115, 115, 101, 100>>,  \* pissed
        <<97, 110, 110, 111, 121, 101, 100>>,  \* annoyed
        <<102, 114, 117, 115, 116, 114, 97, 116, 101, 100>>,  \* frustrated
        <<105, 114, 114, 105, 116, 97, 116, 101, 100>>,  \* irritated
        <<118, 105, 111, 108, 101, 110, 99, 101>>,  \* violence
        <<102, 105, 103, 104, 116>>,  \* fight
        <<119, 97, 114>>,  \* war
        <<100, 101, 115, 116, 114, 111, 121>>,  \* destroy
        <<114, 97, 105, 118, 97>>,  \* raiva
        <<243, 100, 105, 111>>,  \* {U+00F3}dio
        <<98, 114, 97, 118, 111>>,  \* bravo
        <<102, 117, 114, 105, 111, 115, 111>>,  \* furioso
        <<105, 114, 114, 105, 116, 97, 100, 111>>,  \* irritado
        <<102, 114, 117, 115, 116, 114, 97, 100, 111>>,  \* frustrado
        <<118, 105, 111, 108, 234, 110, 99, 105, 97>>,  \* viol{U+00EA}ncia
        <<108, 117, 116, 97>>,  \* luta
        <<103, 117, 101, 114, 114, 97>>,  \* guerra
        <<100, 101, 115, 116, 114, 117, 105, 114>>  \* destruir
      >>)
  @@ ("felicidade" :> <<
        <<104, 97, 112, 112, 121>>,  \* happy
        <<106, 111, 121>>,  \* joy
        <<115, 109, 105, 108, 101>>,  \* smile
        <<108, 97, 117, 103, 104>>,  \* laugh
        <<108, 111, 118, 101>>,  \* love
        <<97, 109, 97, 122, 105, 110, 103>>,  \* amazing
        <<119, 111, 110, 100, 101, 114, 102, 117, 108>>,  \* wonderful
        <<98, 101, 97, 117, 116, 105, 102, 117, 108>>,  \* beautiful
        <<112, 101, 114, 102, 101, 99, 116>>,  \* perfect
        <<103, 114, 101, 97, 116>>,  \* great
        <<97, 119, 101, 115, 111, 109, 101>>,  \* awesome
        <<102, 97, 110, 116, 97, 115, 116, 105, 99>>,  \* fantastic
        <<99, 101, 108, 101, 98, 114, 97, 116, 105, 111, 110>>,  \* celebration
        <<102, 101, 108, 105, 122>>,  \* feliz
        <<97, 108, 101, 103, 114, 105, 97>>,  \* alegria
        <<115, 111, 114, 114, 105, 115, 111>>,  \* sorriso
        <<114, 105, 114>>,  \* rir
        <<97, 109, 111, 114>>,  \* amor
        <<105, 110, 99, 114, 237, 118, 101, 108>>,  \* incr{U+00ED}vel
        <<109, 97, 114, 97, 118, 105, 108, 104, 111, 115, 111>>,  \* maravilhoso
        <<108, 105, 110, 100, 111>>,  \* lindo
        <<112, 101, 114, 102, 101, 105, 116, 111>>,  \* perfeito
        <<243, 116, 105, 109, 111>>,  \* {U+00F3}timo
        <<102, 97, 110, 116, 225, 115, 116, 105, 99, 111>>,  \* fant{U+00E1}stico
        <<99, 101, 108, 101, 98, 114, 97, 231, 227, 111>>  \* celebra{U+00E7}{U+00E3}o
      >>)
  @@ ("medo" :> <<
        <<102, 101, 97, 114>>,  \* fear
        <<115, 99, 97, 114, 101, 100>>,  \* scared
        <<97, 102, 114, 97, 105, 100>>,  \* afraid
        <<116, 101, 114, 114, 111, 114>>,  \* terror
        <<112, 97, 110, 105, 99>>,  \* panic
        <<97, 110, 120, 105, 101, 116, 121>>,  \* anxiety
        <<119, 111, 114, 114, 105, 101, 100>>,  \* worried
        <<110, 101, 114, 118, 111, 117, 115>>,  \* nervous
        <<102, 114, 105, 103, 104, 116, 101, 110, 101, 100>>,  \* frightened
        <<112, 97, 114, 97, 110, 111, 105, 100>>,  \* paranoid
        <<105, 110, 115, 101, 99, 117, 114, 101>>,  \* insecure
        <<118, 117, 108, 110, 101, 114, 97, 98, 108, 101>>,  \* vulnerable
        <<109, 101, 100, 111>>,  \* medo
        <<97, 115, 115, 117, 115, 116, 97, 100, 111>>,  \* assustado
        <<99, 111, 109, 32, 109, 101, 100, 111>>,  \* com medo
        <<116, 101, 114, 114, 111, 114>>,  \* terror
        <<112, 226, 110, 105, 99, 111>>,  \* p{U+00E2}nico
        <<97, 110, 115, 105, 101, 100, 97, 100, 101>>,  \* ansiedade
        <<112, 114, 101, 111, 99, 117, 112, 97, 100, 111>>,  \* preocupado
        <<110, 101, 114, 118, 111, 115, 111>>,  \* nervoso
        <<97, 109, 101, 100, 114, 111, 110, 116, 97, 100, 111>>,  \* amedrontado
        <<112, 97, 114, 97, 110, 111, 105, 99, 111>>,  \* paranoico
        <<105, 110, 115, 101, 103, 117, 114, 111>>  \* inseguro
      >>)
  @@ ("esperanca" :> <<
        <<104, 111, 112, 101>>,  \* hope
        <<100, 114, 101, 97, 109>>,  \* dream
        <<102, 117, 116, 117, 114, 101>>,  \* future
        <<98, 101, 108, 105, 101, 118, 101>>,  \* believe
        <<102, 97, 105, 116, 104>>,  \* faith
        <<116, 114, 117, 115, 116>>,  \* trust
        <<111, 112, 116, 105, 109, 105, 115, 116, 105, 99>>,  \* optimistic
        <<112, 111, 115, 105, 116, 105, 118, 101>>,  \* positive
        <<98, 114, 105, 103, 104, 116>>,  \* bright
        <<108, 105, 103, 104, 116>>,  \* light
        <<116, 111, 109, 111, 114, 114, 111, 119>>,  \* tomorrow
        <<98, 101, 116, 116, 101, 114>>,  \* better
        <<104, 101, 97, 108>>,  \* heal
        <<101, 115, 112, 101, 114, 97, 110, 231, 97>>,  \* esperan{U+00E7}a
        <<115, 111, 110, 104, 111>>,  \* sonho
        <<102, 117, 116, 117, 114, 111>>,  \* futuro
        <<97, 99, 114, 101, 100, 105, 116, 97, 114>>,  \* acreditar
        <<102, 233>>,  \* f{U+00E9}
        <<99, 111, 110, 102, 105, 97, 110, 231, 97>>,  \* confian{U+00E7}a
        <<111, 116, 105, 109, 105, 115, 116, 97>>,  \* otimista
        <<112, 111, 115, 105, 116, 105, 118, 111>>,  \* positivo
        <<98, 114, 105, 108, 104, 97, 110, 116, 101>>,  \* brilhante
        <<108, 117, 122>>,  \* luz
        <<97, 109, 97, 110, 104, 227>>,  \* amanh{U+00E3}
        <<109, 101, 108, 104, 111, 114>>,  \* melhor
        <<99, 117, 114, 97, 114>>  \* curar
      >>)
  @@ ("nostalgia" :> <<
        <<114, 101, 109, 101, 109, 98, 101, 114>>,  \* remember
        <<109, 101, 109, 111, 114, 121>>,  \* memory
        <<112, 97, 115, 116>>,  \* past
        <<121, 101, 115, 116, 101, 114, 100, 97, 121>>,  \* yesterday
        <<99, 104, 105, 108, 100, 104, 111, 111, 100>>,  \* childhood
        <<111, 108, 100>>,  \* old
        <<109, 105, 115, 115>>,  \* miss
        <<117, 115, 101, 100, 32, 116, 111>>,  \* used to
        <<98, 101, 102, 111, 114, 101>>,  \* before
        <<98, 97, 99, 107, 32, 116, 104, 101, 110>>,  \* back then
        <<110, 111, 115, 116, 97, 108, 103, 105, 97>>,  \* nostalgia
        <<114, 101, 109, 105, 110, 105, 115, 99, 101>>,  \* reminisce
        <<108, 101, 109, 98, 114, 97, 114>>,  \* lembrar
        <<109, 101, 109, 243, 114, 105, 97>>,  \* mem{U+00F3}ria
        <<112, 97, 115, 115, 97, 100, 111>>,  \* passado
        <<111, 110, 116, 101, 109>>,  \* ontem
        <<105, 110, 102, 226, 110, 99, 105, 97>>,  \* inf{U+00E2}ncia
        <<118, 101, 108, 104, 111>>,  \* velho
        <<115, 97, 117, 100, 97, 100, 101>>,  \* saudade
        <<99, 111, 115, 116, 117, 109, 97, 118, 97>>,  \* costumava
        <<97, 110, 116, 101, 115>>,  \* antes
        <<110, 97, 113, 117, 101, 108, 97, 32, 233, 112, 111, 99, 97>>,  \* naquela {U+00E9}poca
        <<110, 111, 115, 116, 97, 108, 103, 105, 97>>  \* nostalgia
      >>)

LoadIntensifiers ==
     (<<109, 117, 105, 116, 111>> :> Q(15, 10))  \* muito: 1.5
  @@ (<<101, 120, 116, 114, 101, 109, 101, 108, 121>> :> Q(18, 10))  \* extremely: 1.8
  @@ (<<114, 101, 97, 108, 108, 121>> :> Q(13, 10))  \* really: 1.3
  @@ (<<115, 111>> :> Q(12, 10))  \* so: 1.2
  @@ (<<118, 101, 114, 121>> :> Q(14, 10))  \* very: 1.4
  @@ (<<116, 111, 116, 97, 108, 108, 121>> :> Q(16, 10))  \* totally: 1.6
  @@ (<<99, 111, 109, 112, 108, 101, 116, 101, 108, 121>> :> Q(17, 10))  \* completely: 1.7
  @@ (<<97, 98, 115, 111, 108, 117, 116, 101, 108, 121>> :> Q(18, 10))  \* absolutely: 1.8
  @@ (<<105, 110, 99, 114, 101, 100, 105, 98, 108, 121>> :> Q(16, 10))  \* incredibly: 1.6
  @@ (<<98, 97, 115, 116, 97, 110, 116, 101>> :> Q(13, 10))  \* bastante: 1.3
  @@ (<<101, 120, 116, 114, 101, 109, 97, 109, 101, 110, 116, 101>> :> Q(18, 10))  \* extremamente: 1.8
  @@ (<<114, 101, 97, 108, 109, 101, 110, 116, 101>> :> Q(13, 10))  \* realmente: 1.3
  @@ (<<116, 111, 116, 97, 108, 109, 101, 110, 116, 101>> :> Q(16, 10))  \* totalmente: 1.6
  @@ (<<99, 111, 109, 112, 108, 101, 116, 97, 109, 101, 110, 116, 101>> :> Q(17, 10))  \* completamente: 1.7
  @@ (<<97, 98, 115, 111, 108, 117, 116, 97, 109, 101, 110, 116, 101>> :> Q(18, 10))  \* absolutamente: 1.8
  @@ (<<105, 110, 99, 114, 105, 118, 101, 108, 109, 101, 110, 116, 101>> :> Q(16, 10))  \* incrivelmente: 1.6

(***************************************************************************)
(* Text Normalizer: SentimentAnalyzer._preprocess_text.                    *)
(***************************************************************************)
\* re.sub(r'[^\w\s.,!?;:-]', ' ', text)
ReplaceSpecial(text) ==
  AsTuple([i \in 1..Len(text) |->
             IF IsWordChar(text[i]) \/ IsSpace(text[i])
                  \/ IsKeptPunct(text[i])
             THEN text[i] ELSE SP])

\* re.sub(r'\s+', ' ', text)
CollapseSpaces(text) ==
  LET f[i \in 0..Len(text)] ==
        IF i = 0 THEN <<>>
        ELSE IF ~IsSpace(text[i]) THEN Append(f[i - 1], text[i])
        ELSE IF i > 1 /\ IsSpace(text[i - 1]) THEN f[i - 1]
        ELSE Append(f[i - 1], SP)
  IN  f[Len(text)]

MinLineLen == 3

preprocess_text(text) ==
  Eval(ReplaceSpecial(text), LAMBDA t1 :
  Eval(CollapseSpaces(t1), LAMBDA t2 :
  Eval(Split(t2, NL), LAMBDA split :
    LET stripped == [i \in 1..Len(split) |-> Strip(split[i])]
        lines == SelectSeq(stripped, LAMBDA line : Len(line) > MinLineLen)
    IN  Eval(Strip(Join(lines, <<SP>>)), LAMBDA joined :
          AsTuple([i \in 1..Len(joined) |-> Lower(joined[i])])))))

(***************************************************************************)
(* The two nltk tokenizers, on normalized text (word characters, single    *)
(* spaces and . , ! ? ; : -).  word_tokenize: tokens are the maximal runs   *)
(* of word characters and hyphens, and each other punctuation mark is a    *)
(* token of its own.  sent_tokenize: a sentence ends after a run of        *)
(* . ! ? that is followed by a space or by the end of the text.            *)
(***************************************************************************)
IsTokenPunct(c) == c \in {46, 44, 33, 63, 59, 58}

IsSentenceEnd(c) == c \in {46, 33, 63}

\* A character of a word token: neither white space nor a punctuation
\* mark that is a token of its own.
IsTokenChar(c) == ~IsSpace(c) /\ ~IsTokenPunct(c)

word_tokenize(text) ==
  LET starts == {i \in 1..Len(text) :
                   \/ IsTokenPunct(text[i])
                   \/ /\ IsTokenChar(text[i])
                      /\ (i = 1 \/ ~IsTokenChar(text[i - 1]))}
      last(i) == IF IsTokenPunct(text[i]) THEN i
                 ELSE CHOOSE j \in i..Len(text) :
                        /\ \A k \in i..j : IsTokenChar(text[k])
                        /\ (j = Len(text) \/ ~IsTokenChar(text[j + 1]))
      first == Ascending(starts)
  IN  AsTuple([k \in 1..Len(first) |->
                 SubSeq(text, first[k], last(first[k]))])

sent_tokenize(text) ==
  LET pieces == SplitAt(text, {i \in 2..Len(text) :
                                 /\ IsSpace(text[i])
                                 /\ IsSentenceEnd(text[i - 1])})
      stripped == [i \in 1..Len(pieces) |-> Strip(pieces[i])]
  IN  SelectSeq(stripped, LAMBDA s : s # <<>>)

(***************************************************************************)
(* Keyword Scorer: SentimentAnalyzer._analyze_emotion_keywords.            *)
(***************************************************************************)
\* A variant of lines 140-142 in which two intensifiers that precede the
\* token one after the other multiply.
intensity_multiplier_product(words, i, inten) ==
  IF i > 1 /\ words[i - 1] \in DOMAIN inten
  THEN IF i > 2 /\ words[i - 2] \in DOMAIN inten
       THEN QMul(inten[words[i - 1]], inten[words[i - 2]])
       ELSE inten[words[i - 1]]
  ELSE One

\* The multiplier of the token at position i (lines 140-142).
intensity_multiplier(words, i, inten) ==
  IF i > 1 /\ words[i - 1] \in DOMAIN inten THEN inten[words[i - 1]] ELSE One

\* `word in keywords` (lines 146-147): 1 when the token is in the list.
ExactHits(word, keywords) == IF word \in Range(keywords) THEN 1 ELSE 0

\* A variant of the inner loop that counts each distinct keyword once, as
\* it would on a lexicon without repeated entries.
SubstringHits_distinct(word, keywords) ==
  Cardinality({k \in Range(keywords) :
                 IsSubstring(k, word) \/ IsSubstring(word, k)})

\* The inner loop (lines 149-151): the number of list positions whose
\* keyword contains the token or is contained in it.
SubstringHits(word, keywords) ==
  Cardinality({k \in 1..Len(keywords) :
                 IsSubstring(keywords[k], word) \/ IsSubstring(word, keywords[k])})

\* What one token adds to one emotion's accumulator (lines 145-151).
TokenContribution(word, mult, keywords) ==
  QAdd(QMul(Q(ExactHits(word, keywords), 1), mult),
       QMul(QMul(Q(1, 2), mult), Q(SubstringHits(word, keywords), 1)))

\* The accumulator of one emotion after the loop over the tokens.
Accumulator(words, keywords, inten) ==
  LET f[i \in 0..Len(words)] ==
        IF i = 0 THEN Zero
        ELSE QAdd(f[i - 1],
                  TokenContribution(words[i],
                                    intensity_multiplier(words, i, inten),
                                    keywords))
  IN  f[Len(words)]

analyze_emotion_keywords(text, lex, inten) ==
  Eval(word_tokenize(text), LAMBDA words :
    LET total_words == Len(words)
    IN  [emotion \in Emotions |->
           LET acc == Accumulator(words, lex[emotion], inten)
           IN  IF total_words > 0
               THEN QMul(QMul(acc, Q(1, total_words)), Q(100, 1))
               ELSE acc])

(***************************************************************************)
(* Context Scorer: SentimentAnalyzer._analyze_context.  polarities[i] is   *)
(* the primitive's polarity for the i-th sentence.                         *)
(***************************************************************************)
\* A variant of lines 171-178 with `<= -0.3` and `>= 0.3`.
ContextStep_inclusive(scores, polarity) ==
  IF QLeq(polarity, Q(-3, 10))
  THEN [scores EXCEPT
          !["tristeza"] = QAdd(@, QAbs(polarity)),
          !["raiva"] = QAdd(@, QMul(QAbs(polarity), Q(5, 10)))]
  ELSE IF QLeq(Q(3, 10), polarity)
  THEN [scores EXCEPT
          !["felicidade"] = QAdd(@, polarity),
          !["esperanca"] = QAdd(@, QMul(polarity, Q(7, 10)))]
  ELSE [scores EXCEPT !["nostalgia"] = QAdd(@, Q(1, 10))]

\* Lines 171-178: what one sentence of the given polarity adds.
ContextStep(scores, polarity) ==
  IF QLess(polarity, Q(-3, 10))
  THEN [scores EXCEPT
          !["tristeza"] = QAdd(@, QAbs(polarity)),
          !["raiva"] = QAdd(@, QMul(QAbs(polarity), Q(5, 10)))]
  ELSE IF QLess(Q(3, 10), polarity)
  THEN [scores EXCEPT
          !["felicidade"] = QAdd(@, polarity),
          !["esperanca"] = QAdd(@, QMul(polarity, Q(7, 10)))]
  ELSE [scores EXCEPT !["nostalgia"] = QAdd(@, Q(1, 10))]

analyze_context(polarities) ==
  LET f[i \in 0..Len(polarities)] ==
        IF i = 0 THEN [emotion \in Emotions |-> Zero]
        ELSE ContextStep(f[i - 1], polarities[i])
  IN  f[Len(polarities)]

(***************************************************************************)
(* Combiner: SentimentAnalyzer._combine_analyses and _extract_keywords.    *)
(***************************************************************************)
Position(e) == CHOOSE i \in 1..Len(EmotionOrder) : EmotionOrder[i] = e

\* A variant of lines 186-199 with `<= -0.2` and `>= 0.2`.
combined_scores_inclusive(polarity, emotion_scores, context_scores) ==
  LET blend == [e \in DOMAIN emotion_scores |->
                  QAdd(QMul(emotion_scores[e], Q(7, 10)),
                       QMul(context_scores[e], Q(3, 10)))]
  IN  IF QLeq(polarity, Q(-2, 10))
      THEN [blend EXCEPT !["tristeza"] = QMul(@, Q(13, 10)),
                         !["raiva"] = QMul(@, Q(12, 10))]
      ELSE IF QLeq(Q(2, 10), polarity)
      THEN [blend EXCEPT !["felicidade"] = QMul(@, Q(13, 10)),
                         !["esperanca"] = QMul(@, Q(12, 10))]
      ELSE blend

\* Lines 186-199: the weighted blend and the global-polarity boost.
combined_scores(polarity, emotion_scores, context_scores) ==
  LET blend == [e \in DOMAIN emotion_scores |->
                  QAdd(QMul(emotion_scores[e], Q(7, 10)),
                       QMul(context_scores[e], Q(3, 10)))]
  IN  IF QLess(polarity, Q(-2, 10))
      THEN [blend EXCEPT !["tristeza"] = QMul(@, Q(13, 10)),
                         !["raiva"] = QMul(@, Q(12, 10))]
      ELSE IF QLess(Q(2, 10), polarity)
      THEN [blend EXCEPT !["felicidade"] = QMul(@, Q(13, 10)),
                         !["esperanca"] = QMul(@, Q(12, 10))]
      ELSE blend

\* A variant of line 202 in which equal scores come in the reverse of the
\* dict's insertion order.
Before_reversed(scores, a, b) ==
  \/ QLess(scores[b], scores[a])
  \/ scores[a] = scores[b] /\ Position(b) < Position(a)

\* sorted(combined_scores.items(), key=lambda x: x[1], reverse=True), line
\* 202: a stable sort, so equal scores keep the dict's insertion order.
Before(scores, a, b) ==
  \/ QLess(scores[b], scores[a])
  \/ scores[a] = scores[b] /\ Position(a) < Position(b)

sorted_emotions(scores) ==
  [k \in 1..Cardinality(DOMAIN scores) |->
     CHOOSE e \in DOMAIN scores :
       Cardinality({o \in DOMAIN scores : Before(scores, o, e)}) = k - 1]

\* A variant of _extract_keywords that extends the lexicon's own list of
\* the primary emotion and returns that list object.
extract_keywords_shared(primary, secondary, lex) ==
  IF primary \in DOMAIN lex
  THEN LET second == IF secondary # NONE /\ secondary \in DOMAIN lex
                     THEN Take(lex[secondary], 3) ELSE <<>>
       IN  [keywords |-> lex[primary] \o second,
            alias |-> primary,
            emotion_keywords |-> [lex EXCEPT ![primary] = @ \o second]]
  ELSE [keywords |-> IF secondary # NONE /\ secondary \in DOMAIN lex
                     THEN Take(lex[secondary], 3) ELSE <<>>,
        alias |-> NONE, emotion_keywords |-> lex]

\* A variant of _extract_keywords that takes 3 keywords of the primary
\* emotion and 5 of the secondary.
extract_keywords_swapped(primary, secondary, lex) ==
  LET first == IF primary \in DOMAIN lex THEN Take(lex[primary], 3) ELSE <<>>
      second == IF secondary # NONE /\ secondary \in DOMAIN lex
                THEN Take(lex[secondary], 5) ELSE <<>>
  IN  [keywords |-> first \o second, alias |-> NONE, emotion_keywords |-> lex]

\* Lines 223-233.  The list returned is a new list object: alias names the
\* lexicon entry whose list object it is, NONE for a new object.
extract_keywords(primary, secondary, lex) ==
  LET first == IF primary \in DOMAIN lex THEN Take(lex[primary], 5) ELSE <<>>
      second == IF secondary # NONE /\ secondary \in DOMAIN lex
                THEN Take(lex[secondary], 3) ELSE <<>>
  IN  [keywords |-> first \o second, alias |-> NONE, emotion_keywords |-> lex]

\* A variant of line 204 with `>= 0.1`.
primary_emotion_geq(combined, sorted) ==
  IF QLeq(Q(1, 10), combined[sorted[1]]) THEN sorted[1] ELSE NEUTRO

\* Line 204.
primary_emotion(combined, sorted) ==
  IF QLess(Q(1, 10), combined[sorted[1]]) THEN sorted[1] ELSE NEUTRO

\* A variant of lines 205-208 with `>= 0.05`.
secondary_emotion_geq(combined, sorted) ==
  IF Len(sorted) > 1 /\ QLeq(Q(5, 100), combined[sorted[2]])
  THEN sorted[2] ELSE NONE

\* Lines 205-208.
secondary_emotion(combined, sorted) ==
  IF Len(sorted) > 1 /\ QLess(Q(5, 100), combined[sorted[2]])
  THEN sorted[2] ELSE NONE

\* Lines 211 and 219: the top score, limited to 1.0.
final_score(combined, sorted) ==
  QMin(IF Len(sorted) > 0 THEN combined[sorted[1]] ELSE Zero, One)

\* The dict returned, with the combined scores and the ranking it was
\* derived from.
combine_analyses(polarity, emotion_scores, context_scores, lex) ==
  Eval(combined_scores(polarity, emotion_scores, context_scores),
       LAMBDA combined :
  Eval(sorted_emotions(combined), LAMBDA sorted :
  Eval(extract_keywords(primary_emotion(combined, sorted),
                        secondary_emotion(combined, sorted), lex),
       LAMBDA extracted :
    [primary |-> primary_emotion(combined, sorted),
     secondary |-> secondary_emotion(combined, sorted),
     score |-> final_score(combined, sorted),
     keywords |-> extracted.keywords,
     alias |-> extracted.alias,
     emotion_keywords |-> extracted.emotion_keywords,
     combined |-> combined,
     sorted |-> sorted])))

(***************************************************************************)
(* Confidence Estimator: SentimentAnalyzer._calculate_confidence.          *)
(***************************************************************************)
QMaxOf(scores) ==
  IF DOMAIN scores = {} THEN Zero
  ELSE CHOOSE m \in {scores[e] : e \in DOMAIN scores} :
         \A e \in DOMAIN scores : QLeq(scores[e], m)

\* A variant of _calculate_confidence without the final min(confidence, 1.0).
calculate_confidence_unclamped(subjectivity, emotion_scores, text_length) ==
  LET emotion_strength == QMaxOf(emotion_scores)
      length_factor == QMin(Q(text_length, 500), One)
  IN  QAdd(QAdd(QMul(subjectivity, Q(4, 10)),
                QMul(emotion_strength, Q(4, 10))),
           QMul(length_factor, Q(2, 10)))

calculate_confidence(subjectivity, emotion_scores, text_length) ==
  LET emotion_strength == QMaxOf(emotion_scores)
      length_factor == QMin(Q(text_length, 500), One)
      confidence == QAdd(QAdd(QMul(subjectivity, Q(4, 10)),
                              QMul(emotion_strength, Q(4, 10))),
                         QMul(length_factor, Q(2, 10)))
  IN  QMin(confidence, One)

(***************************************************************************)
(* Top-level entry point: SentimentAnalyzer.analyze_sentiment.             *)
(*                                                                         *)
(* lyrics is [absent, text]: absent stands for None.  whole is the         *)
(* primitive's answer on the whole normalized text and sents[i] its        *)
(* answer on the i-th sentence; an answer with fail = TRUE is the          *)
(* primitive raising.  The outcome records whether the call raised, the    *)
(* dict returned (a sequence of length 0 or 1), the texts the primitive    *)
(* was called on in call order, and the lexicon afterwards.                *)
(***************************************************************************)
MinLyricsLen == 10

EmptyDict == [e \in {} |-> Zero]

NeutralResult ==
  [sentimento_primario |-> NEUTRO,
   sentimento_secundario |-> NONE,
   pontuacao_sentimento |-> Zero,
   palavras_chave |-> <<>>,
   confianca |-> Zero,
   emocoes_detectadas |-> EmptyDict]

\* Line 84: `not lyrics or len(lyrics.strip()) < 10`.
IsDegenerate(lyrics) ==
  \/ lyrics.absent
  \/ lyrics.text = <<>>
  \/ Len(Strip(lyrics.text)) < MinLyricsLen

\* A variant in which a failure of the primitive on a sentence is swallowed.
FirstFailure_swallowed(sents) == 0

\* The index of the first sentence on which the primitive raises, 0 if none.
FirstFailure(sents) ==
  IF \E i \in 1..Len(sents) : sents[i].fail
  THEN CHOOSE i \in 1..Len(sents) :
         sents[i].fail /\ \A j \in 1..(i - 1) : ~sents[j].fail
  ELSE 0

\* A variant in which the sentences are analysed before the whole text.
primitive_calls_sentences_first(cleaned_lyrics, sentences) ==
  sentences \o <<cleaned_lyrics>>

\* The texts the primitive is called on when none of its calls fails:
\* TextBlob(cleaned_lyrics) at line 97, then TextBlob(sentence) at line 167
\* for each sentence in turn.
primitive_calls(cleaned_lyrics, sentences) ==
  <<cleaned_lyrics>> \o sentences

analyze_sentiment(lyrics, whole, sents, lex, inten) ==
  IF IsDegenerate(lyrics)
  THEN [raised |-> FALSE, result |-> <<NeutralResult>>, alias |-> NONE,
        calls |-> <<>>, emotion_keywords |-> lex]
  ELSE
    Eval(preprocess_text(lyrics.text), LAMBDA cleaned_lyrics :
    Eval(sent_tokenize(cleaned_lyrics), LAMBDA sentences :
      IF whole.fail
      THEN [raised |-> TRUE, result |-> <<>>, alias |-> NONE,
            calls |-> SubSeq(primitive_calls(cleaned_lyrics, sentences), 1, 1),
            emotion_keywords |-> lex]
      ELSE IF FirstFailure(sents) > 0
      THEN [raised |-> TRUE, result |-> <<>>, alias |-> NONE,
            calls |-> SubSeq(primitive_calls(cleaned_lyrics, sentences), 1,
                             1 + FirstFailure(sents)),
            emotion_keywords |-> lex]
      ELSE
        Eval(analyze_emotion_keywords(cleaned_lyrics, lex, inten),
             LAMBDA emotion_scores :
        Eval(analyze_context([i \in 1..Len(sents) |-> sents[i].polarity]),
             LAMBDA context_score :
        Eval(combine_analyses(whole.polarity, emotion_scores, context_score,
                              lex),
             LAMBDA final_analysis :
        Eval(calculate_confidence(whole.subjectivity, emotion_scores,
                                  Len(cleaned_lyrics)),
             LAMBDA confidence :
          [raised |-> FALSE,
           result |-> <<[sentimento_primario |-> final_analysis.primary,
                         sentimento_secundario |-> final_analysis.secondary,
                         pontuacao_sentimento |-> final_analysis.score,
                         palavras_chave |-> final_analysis.keywords,
                         confianca |-> confidence,
                         emocoes_detectadas |-> emotion_scores]>>,
           alias |-> final_analysis.alias,
           calls |-> primitive_calls(cleaned_lyrics, sentences),
           emotion_keywords |-> final_analysis.emotion_keywords]))))))

(***************************************************************************)
(* The record store: MusicDatabase.  The table musicas is a set of rows;   *)
(* seq is the AUTOINCREMENT counter (the largest id ever given).  Titles,  *)
(* artists and lyrics are never NULL (they are typed str), so the only     *)
(* IntegrityError an INSERT can raise is the one of UNIQUE(titulo,         *)
(* artista), and the statement that raises it changes nothing.             *)
(***************************************************************************)
RowsOf(musicas, titulo, artista) ==
  {r \in musicas : r.titulo = titulo /\ r.artista = artista}

\* SELECT * FROM musicas WHERE titulo = ? AND artista = ? ; fetchone():
\* the row as a sequence of length 1, or <<>> for None.
get_music_analysis(musicas, titulo, artista) ==
  IF RowsOf(musicas, titulo, artista) = {} THEN <<>>
  ELSE <<CHOOSE r \in RowsOf(musicas, titulo, artista) :
           \A o \in RowsOf(musicas, titulo, artista) : r.id <= o.id>>

\* SELECT id FROM musicas WHERE titulo = ? AND artista = ?
get_music_id(musicas, titulo, artista) ==
  IF get_music_analysis(musicas, titulo, artista) = <<>> THEN 0
  ELSE get_music_analysis(musicas, titulo, artista)[1].id

\* A variant of insert_music_analysis that keeps the stored row when the
\* pair is already there (INSERT OR IGNORE).
insert_music_analysis_ignore(musicas, seq, titulo, artista, a, now) ==
  IF RowsOf(musicas, titulo, artista) = {}
  THEN [musicas |-> musicas \cup
                      {[id |-> seq + 1,
                        titulo |-> titulo,
                        artista |-> artista,
                        letra |-> a.letra,
                        sentimento_primario |-> a.sentimento_primario,
                        sentimento_secundario |-> a.sentimento_secundario,
                        pontuacao_sentimento |-> a.pontuacao_sentimento,
                        palavras_chave |-> a.palavras_chave,
                        data_analise |-> now]},
        seq |-> seq + 1,
        id |-> seq + 1]
  ELSE [musicas |-> musicas, seq |-> seq,
        id |-> get_music_id(musicas, titulo, artista)]

\* The table, the counter and the id returned after the call.  a is the
\* analysis stored: letra, sentimento_primario, sentimento_secundario,
\* pontuacao_sentimento, palavras_chave.
insert_music_analysis(musicas, seq, titulo, artista, a, now) ==
  IF RowsOf(musicas, titulo, artista) = {}
  THEN \* the INSERT succeeds; lastrowid is the new id
       [musicas |-> musicas \cup
                      {[id |-> seq + 1,
                        titulo |-> titulo,
                        artista |-> artista,
                        letra |-> a.letra,
                        sentimento_primario |-> a.sentimento_primario,
                        sentimento_secundario |-> a.sentimento_secundario,
                        pontuacao_sentimento |-> a.pontuacao_sentimento,
                        palavras_chave |-> a.palavras_chave,
                        data_analise |-> now]},
        seq |-> seq + 1,
        id |-> seq + 1]
  ELSE \* sqlite3.IntegrityError: the UPDATE of the rows of that pair
       Eval({IF r.titulo = titulo /\ r.artista = artista
             THEN [r EXCEPT
                     !.letra = a.letra,
                     !.sentimento_primario = a.sentimento_primario,
                     !.sentimento_secundario = a.sentimento_secundario,
                     !.pontuacao_sentimento = a.pontuacao_sentimento,
                     !.palavras_chave = a.palavras_chave,
                     !.data_analise = now]
             ELSE r : r \in musicas},
            LAMBDA updated :
              [musicas |-> updated,
               seq |-> seq,
               id |-> get_music_id(updated, titulo, artista)])

(***************************************************************************)
(* The lyric fetcher: LyricsFetcher.  A provider either raises or returns  *)
(* None or a text.                                                         *)
(***************************************************************************)
Sources == <<"_fetch_from_azlyrics", "_fetch_from_genius", "_fetch_from_letras">>

MinFetchedLen == 50

\* A variant of line 30 that measures the text without trimming it.
HasEnoughContent_untrimmed(out) ==
  /\ ~out.none
  /\ out.text # <<>>
  /\ Len(out.text) > MinFetchedLen

\* Line 30: `lyrics and len(lyrics.strip()) > 50`.
HasEnoughContent(out) ==
  /\ ~out.none
  /\ out.text # <<>>
  /\ Len(Strip(out.text)) > MinFetchedLen

\* re.sub(r'\[.*?\]', '', s) and re.sub(r'\(.*?\)', '', s): every opening
\* mark with a closing mark after it on the same line is removed with what
\* lies between them, leftmost first.
ClosingAfter(s, i, close) ==
  IF \E j \in (i + 1)..Len(s) :
       s[j] = close /\ \A k \in (i + 1)..(j - 1) : s[k] # NL
  THEN CHOOSE j \in (i + 1)..Len(s) :
         /\ s[j] = close
         /\ \A k \in (i + 1)..(j - 1) : s[k] # NL /\ s[k] # close
  ELSE 0

RemoveEnclosed(s, open, close) ==
  LET f[i \in 1..(Len(s) + 1)] ==
        IF i > Len(s) THEN <<>>
        ELSE IF s[i] = open /\ ClosingAfter(s, i, close) > 0
        THEN f[ClosingAfter(s, i, close) + 1]
        ELSE <<s[i]>> \o f[i + 1]
  IN  f[1]

IsDigits(line) == line # <<>> /\ \A i \in 1..Len(line) : line[i] \in 48..57

MinCleanLineLen == 2

\* LyricsFetcher._clean_lyrics.  The two whitespace substitutions of lines
\* 154-155 only change blank lines and the white space at the ends of
\* lines, which the loop of lines 158-163 strips and drops anyway.
clean_lyrics(lyrics) ==
  IF lyrics = <<>> THEN <<>>
  ELSE
    Eval(RemoveEnclosed(RemoveEnclosed(lyrics, 91, 93), 40, 41),
         LAMBDA t :
    Eval(Split(t, NL), LAMBDA lines :
      LET stripped == [i \in 1..Len(lines) |-> Strip(lines[i])]
          cleaned_lines ==
            SelectSeq(stripped,
                      LAMBDA line : Len(line) > MinCleanLineLen
                                      /\ ~IsDigits(line))
      IN  Strip(Join(cleaned_lines, <<NL>>))))

(***************************************************************************)
(* The inputs.  A lyric text is up to MaxAtoms atoms joined by single      *)
(* spaces; the atoms cover a keyword, an intensifier, a capitalised        *)
(* keyword that ends a sentence, characters the normalizer replaces, and   *)
(* a line break.                                                           *)
(***************************************************************************)
MaxAtoms == 2

Atoms ==
  { <<115, 97, 100>>,                                   \* sad
    <<101, 120, 116, 114, 101, 109, 101, 108, 121>>,    \* extremely
    <<84, 101, 114, 114, 111, 114, 46>>,                \* Terror.
    <<40, 40, 40, 42, 42, 42, 42, 41, 41, 41>>,         \* (((****)))
    <<10>> }                                            \* line break

AtomSeqs == UNION {[1..n -> Atoms] : n \in 0..MaxAtoms}

LyricsInputs ==
  {[absent |-> TRUE, text |-> <<>>]}
    \cup {[absent |-> FALSE, text |-> Join(a, <<SP>>)] : a \in AtomSeqs}

\* The primitive's answers: polarity in [-1, 1], subjectivity in [0, 1],
\* or a failure.
NoAnswer == [fail |-> TRUE, polarity |-> Zero, subjectivity |-> Zero]

WholeAnswers ==
  { NoAnswer,
    [fail |-> FALSE, polarity |-> Q(-1, 1), subjectivity |-> Q(1, 1)],
    [fail |-> FALSE, polarity |-> Q(0, 1), subjectivity |-> Q(0, 1)],
    [fail |-> FALSE, polarity |-> Q(1, 2), subjectivity |-> Q(1, 2)] }

SentenceAnswers ==
  { NoAnswer,
    [fail |-> FALSE, polarity |-> Q(-1, 2), subjectivity |-> Q(1, 1)],
    [fail |-> FALSE, polarity |-> Q(0, 1), subjectivity |-> Q(0, 1)],
    [fail |-> FALSE, polarity |-> Q(1, 1), subjectivity |-> Q(1, 2)] }

\* The sentences the primitive is asked about for a lyric text.
SentencesOf(lyrics) ==
  IF IsDegenerate(lyrics) THEN <<>>
  ELSE sent_tokenize(preprocess_text(lyrics.text))

\* The number of sentences of every lyric text of the inputs.
SentenceCount == [l \in LyricsInputs |-> Len(SentencesOf(l))]

\* The fixed primitives of a run of calls: the answer given on every whole
\* text and the one given on every sentence.
Primitives ==
  { [whole |-> [fail |-> FALSE, polarity |-> Q(-1, 1), subjectivity |-> Q(1, 1)],
     sentence |-> [fail |-> FALSE, polarity |-> Q(-1, 2), subjectivity |-> Q(1, 1)]],
    [whole |-> [fail |-> FALSE, polarity |-> Q(1, 2), subjectivity |-> Q(1, 2)],
     sentence |-> [fail |-> FALSE, polarity |-> Q(1, 1), subjectivity |-> Q(1, 2)]],
    [whole |-> [fail |-> FALSE, polarity |-> Q(0, 1), subjectivity |-> Q(0, 1)],
     sentence |-> NoAnswer],
    [whole |-> NoAnswer, sentence |-> NoAnswer] }

\* The calls of analyze_sentiment with the answers the primitive gives
\* during each.
CallInputs ==
  {c \in [lyrics : LyricsInputs, whole : WholeAnswers,
          sents : UNION {[1..n -> SentenceAnswers] : n \in 0..MaxAtoms}] :
     Len(c.sents) = SentenceCount[c.lyrics]}

NoCall == [lyrics |-> [absent |-> TRUE, text |-> <<>>],
           whole |-> NoAnswer, sents |-> <<>>]

(***************************************************************************)
(* The inputs of the Combiner: keyword vectors with at most MaxNonZero     *)
(* non-zero entries, whose values blend to the two thresholds 0.05 and     *)
(* 0.1, below, between and above them; the context vectors of no sentence  *)
(* and of one negative sentence; a polarity of each boost range and the    *)
(* two boundaries -0.2 and 0.2.                                            *)
(***************************************************************************)
MaxNonZero == 2

KeywordValues == {Zero, Q(1, 14), Q(1, 10), Q(1, 7), Q(2, 1)}

KeywordVectors ==
  {v \in [Emotions -> KeywordValues] :
     Cardinality({e \in Emotions : v[e] # Zero}) <= MaxNonZero}

ContextVectors == {analyze_context(<<>>), analyze_context(<<Q(-1, 2)>>)}

CombinerPolarities == {Q(-1, 2), Q(-1, 5), Q(0, 1), Q(1, 5), Q(1, 2)}

CombinerInputs ==
  [polarity : CombinerPolarities, emotion_scores : KeywordVectors,
   context_scores : ContextVectors]

(***************************************************************************)
(* The inputs of the Keyword Scorer: a token that is a keyword of the      *)
(* lexicon, alone or after an intensifier or after another keyword, and    *)
(* a keyword after an intensifier that itself follows an intensifier or a  *)
(* keyword.                                                                *)
(***************************************************************************)
AllKeywords == UNION {Range(LoadEmotionKeywords[e]) : e \in Emotions}

\* The keywords a tokenizer can produce: those without a space.
TokenKeywords == {k \in AllKeywords : SP \notin Range(k)}

\* Two intensifiers, 'very' (1.4) and 'extremely' (1.8), and two keywords,
\* 'sad' and 'terror', for the token sequences of length 3.
StackedIntensifiers ==
  { <<118, 101, 114, 121>>,
    <<101, 120, 116, 114, 101, 109, 101, 108, 121>> }

StackedKeywords == { <<115, 97, 100>>, <<116, 101, 114, 114, 111, 114>> }

KeywordScorerInputs ==
  {<<k>> : k \in TokenKeywords}
    \cup {<<p, k>> : p \in DOMAIN LoadIntensifiers \cup {<<115, 97, 100>>},
                     k \in TokenKeywords}
    \cup {<<p, q, k>> : p \in StackedIntensifiers \cup StackedKeywords,
                        q \in StackedIntensifiers, k \in StackedKeywords}

(***************************************************************************)
(* The inputs of the store and of the fetcher.                             *)
(***************************************************************************)
MaxTime == 1

SongKeys == {<<"Hurt", "Johnny Cash">>, <<"Hurt", "Nine Inch Nails">>,
             <<"Imagine", "John Lennon">>}

StoredAnalyses ==
  { [letra |-> "l1", sentimento_primario |-> "tristeza",
     sentimento_secundario |-> NONE, pontuacao_sentimento |-> One,
     palavras_chave |-> "sad, cry, tears, pain, hurt"],
    [letra |-> "l2", sentimento_primario |-> NEUTRO,
     sentimento_secundario |-> "esperanca", pontuacao_sentimento |-> Q(2, 25),
     palavras_chave |-> "hope, dream, future"] }

Repeat(c, n) == [i \in 1..n |-> c]

\* What a provider can do: raise, return None, or return a text: an empty
\* one, 50 characters, 50 characters and white space, 51 characters, 51
\* characters after a bracketed tag, a bracketed tag of 51 characters.
NoText == [raises |-> FALSE, none |-> TRUE, text |-> <<>>]

Text(t) == [raises |-> FALSE, none |-> FALSE, text |-> t]

FailingOutcomes ==
  { [raises |-> TRUE, none |-> TRUE, text |-> <<>>],
    NoText,
    Text(<<>>),
    Text(Repeat(97, 50)),
    Text(<<SP, NL>> \o Repeat(97, 50) \o <<SP, SP>>) }

YieldingOutcomes ==
  { Text(Repeat(97, 51)),
    Text(<<91, 86, 93, NL>> \o Repeat(97, 51)),
    Text(<<91>> \o Repeat(97, 51) \o <<93>>) }

ProviderOutcomes == FailingOutcomes \cup YieldingOutcomes

(***************************************************************************)
(* State.                                                                  *)
(*  The analyzer (SentimentAnalyzer):                                      *)
(*   emotion_keywords, intensifiers  its two tables                        *)
(*   primitive    the fixed primitive of a run of calls                    *)
(*   pc           "idle", "running", "returned", "raised", or "mutated"    *)
(*                once the caller has changed the dict it was given        *)
(*   call         the arguments of the call in progress or last made, with *)
(*                the primitive's answers for it                           *)
(*   result       the dict the last call returned (length 0 or 1)          *)
(*   alias        the lexicon entry whose list object result's keyword     *)
(*                list is, NONE when it is an object of its own            *)
(*   prim_calls   the texts the primitive was called on, in order          *)
(*   dirty        a caller has changed a dict it was given                 *)
(*  One call of _combine_analyses: comb_in, comb_out (length 0 or 1).      *)
(*  One call of _analyze_emotion_keywords, token by token: the tokens      *)
(*   kw_words, the position kw_i of the next one, the accumulators         *)
(*   kw_scores, what the last token added to them kw_added, and kw_pc:     *)
(*   "loop", then "done" once the scores are normalized.                   *)
(*  The store (MusicDatabase): the table musicas, the AUTOINCREMENT        *)
(*   counter sqlite_sequence, the clock, the value db_ret of the last      *)
(*   get_music_analysis, and latest: for every (titulo, artista) the       *)
(*   analysis of the last insert_music_analysis call (length 0 or 1).      *)
(*  One call of LyricsFetcher.fetch_lyrics: fetch_pc ("idle", "loop",      *)
(*   "done"), the index fetch_idx of the next source, the sources called   *)
(*   so far tried, what each did outcomes, and the value returned          *)
(*   fetch_ret ([none, text]: None or a text).                             *)
(*  One call of _preprocess_text: the raw text norm_in and the text        *)
(*   returned norm_out (length 0 or 1).                                    *)
(*  One call of _analyze_context, sentence by sentence: the primitive's    *)
(*   polarities ctx_polarities, the position ctx_i of the next sentence,   *)
(*   the scores ctx_scores and what the last sentence added ctx_added.     *)
(*  MusicMoodAnalyzer.analyze_song, on the store and the analyzer above:   *)
(*   the arguments song_call of the last call with what the providers and  *)
(*   the primitive did during it, its outcome song_out (length 0 or 1),    *)
(*   what it did in order song_events ("get", "fetch", "analyze",          *)
(*   "insert"), and the table as it was before the call song_before.       *)
(***************************************************************************)
VARIABLES emotion_keywords, intensifiers, primitive, pc, call, result,
          alias, prim_calls, dirty,
          comb_in, comb_out,
          kw_words, kw_i, kw_scores, kw_added, kw_pc,
          musicas, sqlite_sequence, clock, db_ret, latest,
          fetch_pc, fetch_idx, tried, outcomes, fetch_ret,
          norm_in, norm_out,
          ctx_polarities, ctx_i, ctx_scores, ctx_added,
          song_call, song_out, song_events, song_before

analyzer_vars == <<emotion_keywords, intensifiers, primitive, pc, call,
                   result, alias, prim_calls, dirty>>

combiner_vars == <<comb_in, comb_out>>

scorer_vars == <<kw_words, kw_i, kw_scores, kw_added, kw_pc>>

store_vars == <<musicas, sqlite_sequence, clock, db_ret, latest>>

fetcher_vars == <<fetch_pc, fetch_idx, tried, outcomes, fetch_ret>>

normalizer_vars == <<norm_in, norm_out>>

context_vars == <<ctx_polarities, ctx_i, ctx_scores, ctx_added>>

app_vars == <<song_call, song_out, song_events, song_before>>

vars == <<analyzer_vars, combiner_vars, scorer_vars, store_vars,
          fetcher_vars, normalizer_vars, context_vars, app_vars>>

ZeroScores == [emotion \in Emotions |-> Zero]

NoPrimitive == [whole |-> NoAnswer, sentence |-> NoAnswer]

\* SentimentAnalyzer.__init__, with a primitive of P and a first call c
\* under way ("running") or none yet ("idle").
InitAnalyzer(P, at, c) ==
  /\ emotion_keywords = LoadEmotionKeywords
  /\ intensifiers = LoadIntensifiers
  /\ primitive \in P
  /\ pc = at
  /\ call = c
  /\ result = <<>>
  /\ alias = NONE
  /\ prim_calls = <<>>
  /\ dirty = FALSE

InitCombiner ==
  /\ comb_in = [polarity |-> Zero, emotion_scores |-> ZeroScores,
                context_scores |-> ZeroScores]
  /\ comb_out = <<>>

InitScorer ==
  /\ kw_words = <<>>
  /\ kw_i = 1
  /\ kw_scores = ZeroScores
  /\ kw_added = ZeroScores
  /\ kw_pc = "loop"

\* MusicDatabase.__init__ on a new database file.
InitStore ==
  /\ musicas = {}
  /\ sqlite_sequence = 0
  /\ clock = 0
  /\ db_ret = <<>>
  /\ latest = [k \in SongKeys |-> <<>>]

InitFetcher ==
  /\ fetch_pc = "idle"
  /\ fetch_idx = 1
  /\ tried = <<>>
  /\ outcomes = <<>>
  /\ fetch_ret = [none |-> TRUE, text |-> <<>>]

InitNormalizer ==
  /\ norm_in = <<>>
  /\ norm_out = <<>>

InitContext ==
  /\ ctx_polarities = <<>>
  /\ ctx_i = 1
  /\ ctx_scores = ZeroScores
  /\ ctx_added = ZeroScores

\* No analyze_song call yet.
NoSongCall ==
  [titulo |-> "", artista |-> "", force_refresh |-> FALSE,
   providers |-> <<>>, primitive |-> NoPrimitive, now |-> 0]

\* MusicMoodAnalyzer.__init__ before any analyze_song call.
InitApp ==
  /\ song_call = NoSongCall
  /\ song_out = <<>>
  /\ song_events = <<>>
  /\ song_before = {}

(***************************************************************************)
(* The analyzer's actions.                                                 *)
(***************************************************************************)
\* A caller invokes analyze_sentiment(lyrics); the fixed primitive answers.
Call ==
  /\ pc # "running"
  /\ \E lyrics \in LyricsInputs :
       call' = [lyrics |-> lyrics,
                whole |-> primitive.whole,
                sents |-> [i \in 1..SentenceCount[lyrics] |->
                             primitive.sentence]]
  /\ pc' = "running"
  /\ result' = <<>>
  /\ alias' = NONE
  /\ prim_calls' = <<>>
  /\ UNCHANGED <<emotion_keywords, intensifiers, primitive, dirty>>
  /\ UNCHANGED <<combiner_vars, scorer_vars, store_vars, fetcher_vars>>
  /\ UNCHANGED <<normalizer_vars, context_vars, app_vars>>

\* The body of analyze_sentiment, on the call in progress.
Run ==
  /\ pc = "running"
  /\ \E out \in {analyze_sentiment(call.lyrics, call.whole, call.sents,
                                    emotion_keywords, intensifiers)} :
       /\ pc' = IF out.raised THEN "raised" ELSE "returned"
       /\ result' = out.result
       /\ alias' = out.alias
       /\ prim_calls' = out.calls
       /\ emotion_keywords' = out.emotion_keywords
  /\ UNCHANGED <<intensifiers, primitive, call, dirty>>
  /\ UNCHANGED <<combiner_vars, scorer_vars, store_vars, fetcher_vars>>
  /\ UNCHANGED <<normalizer_vars, context_vars, app_vars>>

\* The caller changes the dict it was given: it pops the last keyword of
\* result['palavras_chave'].  A list object shared with the lexicon changes
\* there too.
MutateKeywords ==
  /\ pc = "returned"
  /\ result[1].palavras_chave # <<>>
  /\ \E popped \in {SubSeq(result[1].palavras_chave, 1,
                           Len(result[1].palavras_chave) - 1)} :
       /\ result' = <<[result[1] EXCEPT !.palavras_chave = popped]>>
       /\ emotion_keywords' =
            IF alias = NONE THEN emotion_keywords
            ELSE [emotion_keywords EXCEPT ![alias] = popped]
  /\ pc' = "mutated"
  /\ dirty' = TRUE
  /\ UNCHANGED <<intensifiers, primitive, call, alias, prim_calls>>
  /\ UNCHANGED <<combiner_vars, scorer_vars, store_vars, fetcher_vars>>
  /\ UNCHANGED <<normalizer_vars, context_vars, app_vars>>

\* The caller empties result['emocoes_detectadas'], a dict made by the call.
MutateEmotions ==
  /\ pc = "returned"
  /\ result[1].emocoes_detectadas # EmptyDict
  /\ result' = <<[result[1] EXCEPT !.emocoes_detectadas = EmptyDict]>>
  /\ pc' = "mutated"
  /\ dirty' = TRUE
  /\ UNCHANGED <<emotion_keywords, intensifiers, primitive, call, alias,
                 prim_calls>>
  /\ UNCHANGED <<combiner_vars, scorer_vars, store_vars, fetcher_vars>>
  /\ UNCHANGED <<normalizer_vars, context_vars, app_vars>>

(***************************************************************************)
(* One call of _combine_analyses.                                          *)
(***************************************************************************)
Combine ==
  /\ comb_out = <<>>
  /\ comb_out' = <<combine_analyses(comb_in.polarity, comb_in.emotion_scores,
                                    comb_in.context_scores,
                                    emotion_keywords)>>
  /\ UNCHANGED comb_in
  /\ UNCHANGED <<analyzer_vars, scorer_vars, store_vars, fetcher_vars>>
  /\ UNCHANGED <<normalizer_vars, context_vars, app_vars>>

(***************************************************************************)
(* One call of _analyze_emotion_keywords, its loop one token at a time.    *)
(***************************************************************************)
\* Lines 138-151 for the token at position kw_i.
ScoreToken ==
  /\ kw_pc = "loop"
  /\ kw_i <= Len(kw_words)
  /\ \E added \in {[emotion \in Emotions |->
                      TokenContribution(
                        kw_words[kw_i],
                        intensity_multiplier(kw_words, kw_i, intensifiers),
                        emotion_keywords[emotion])]} :
       /\ kw_added' = added
       /\ kw_scores' = [emotion \in Emotions |->
                          QAdd(kw_scores[emotion], added[emotion])]
  /\ kw_i' = kw_i + 1
  /\ UNCHANGED <<kw_words, kw_pc>>
  /\ UNCHANGED <<analyzer_vars, combiner_vars, store_vars, fetcher_vars>>
  /\ UNCHANGED <<normalizer_vars, context_vars, app_vars>>

\* Lines 154-159 once the loop has ended.
Normalize ==
  /\ kw_pc = "loop"
  /\ kw_i > Len(kw_words)
  /\ kw_scores' = [emotion \in Emotions |->
                     IF Len(kw_words) > 0
                     THEN QMul(QMul(kw_scores[emotion], Q(1, Len(kw_words))),
                               Q(100, 1))
                     ELSE kw_scores[emotion]]
  /\ kw_pc' = "done"
  /\ UNCHANGED <<kw_words, kw_i, kw_added>>
  /\ UNCHANGED <<analyzer_vars, combiner_vars, store_vars, fetcher_vars>>
  /\ UNCHANGED <<normalizer_vars, context_vars, app_vars>>

(***************************************************************************)
(* The store's actions.                                                    *)
(***************************************************************************)
\* insert_music_analysis(titulo, artista, ...) at a time not before the
\* last one.
Insert ==
  \E k \in SongKeys, a \in StoredAnalyses, now \in clock..MaxTime :
    \E out \in {insert_music_analysis(musicas, sqlite_sequence, k[1], k[2],
                                      a, now)} :
      /\ musicas' = out.musicas
      /\ sqlite_sequence' = out.seq
      /\ clock' = now
      /\ latest' = [latest EXCEPT ![k] = <<a>>]
      /\ UNCHANGED db_ret
      /\ UNCHANGED <<analyzer_vars, combiner_vars, scorer_vars, fetcher_vars>>
      /\ UNCHANGED <<normalizer_vars, context_vars, app_vars>>

\* get_music_analysis(titulo, artista)
Get ==
  \E k \in SongKeys :
    /\ db_ret' = get_music_analysis(musicas, k[1], k[2])
    /\ UNCHANGED <<musicas, sqlite_sequence, clock, latest>>
    /\ UNCHANGED <<analyzer_vars, combiner_vars, scorer_vars, fetcher_vars>>
    /\ UNCHANGED <<normalizer_vars, context_vars, app_vars>>

(***************************************************************************)
(* fetch_lyrics, one pass of its loop at a time.                           *)
(***************************************************************************)
FetchCall ==
  /\ fetch_pc = "idle"
  /\ fetch_pc' = "loop"
  /\ UNCHANGED <<fetch_idx, tried, outcomes, fetch_ret>>
  /\ UNCHANGED <<analyzer_vars, combiner_vars, scorer_vars, store_vars>>
  /\ UNCHANGED <<normalizer_vars, context_vars, app_vars>>

\* Lines 27-35 for the source at fetch_idx, which does out.
TrySource ==
  /\ fetch_pc = "loop"
  /\ fetch_idx <= Len(Sources)
  /\ \E out \in ProviderOutcomes :
       /\ tried' = Append(tried, Sources[fetch_idx])
       /\ outcomes' = Append(outcomes, out)
       /\ IF ~out.raises /\ HasEnoughContent(out)
          THEN /\ fetch_ret' = [none |-> FALSE, text |-> clean_lyrics(out.text)]
               /\ fetch_pc' = "done"
               /\ UNCHANGED fetch_idx
          ELSE /\ fetch_idx' = fetch_idx + 1
               /\ UNCHANGED <<fetch_pc, fetch_ret>>
  /\ UNCHANGED <<analyzer_vars, combiner_vars, scorer_vars, store_vars>>
  /\ UNCHANGED <<normalizer_vars, context_vars, app_vars>>

\* Line 37: the loop has ended.
ReturnNone ==
  /\ fetch_pc = "loop"
  /\ fetch_idx > Len(Sources)
  /\ fetch_ret' = [none |-> TRUE, text |-> <<>>]
  /\ fetch_pc' = "done"
  /\ UNCHANGED <<fetch_idx, tried, outcomes>>
  /\ UNCHANGED <<analyzer_vars, combiner_vars, scorer_vars, store_vars>>
  /\ UNCHANGED <<normalizer_vars, context_vars, app_vars>>

(***************************************************************************)
(* Specifications.                                                         *)
(*  Spec          an analyzer called again and again by callers that may   *)
(*                change what they are given                               *)
(*  SpecAnalyze   one analyze_sentiment call on any input, with any        *)
(*                answers of the primitive                                 *)
(*  SpecCombine   one _combine_analyses call on any input                  *)
(*  SpecScorer    one _analyze_emotion_keywords call on any tokens         *)
(*  SpecStore     a store used again and again                             *)
(*  SpecFetch     one fetch_lyrics call with any providers                 *)
(***************************************************************************)
Init ==
  /\ InitAnalyzer(Primitives, "idle", NoCall)
  /\ InitCombiner
  /\ InitScorer
  /\ InitStore
  /\ InitFetcher
  /\ InitNormalizer
  /\ InitContext
  /\ InitApp

Next == Call \/ Run \/ MutateKeywords \/ MutateEmotions

Spec == Init /\ [][Next]_vars

InitAnalyze ==
  /\ \E c \in CallInputs : InitAnalyzer({NoPrimitive}, "running", c)
  /\ InitCombiner
  /\ InitScorer
  /\ InitStore
  /\ InitFetcher
  /\ InitNormalizer
  /\ InitContext
  /\ InitApp

SpecAnalyze == InitAnalyze /\ [][Run]_vars

InitCombine ==
  /\ InitAnalyzer({NoPrimitive}, "idle", NoCall)
  /\ comb_in \in CombinerInputs
  /\ comb_out = <<>>
  /\ InitScorer
  /\ InitStore
  /\ InitFetcher
  /\ InitNormalizer
  /\ InitContext
  /\ InitApp

SpecCombine == InitCombine /\ [][Combine]_vars

InitScore ==
  /\ InitAnalyzer({NoPrimitive}, "idle", NoCall)
  /\ InitCombiner
  /\ kw_words \in KeywordScorerInputs
  /\ kw_i = 1
  /\ kw_scores = ZeroScores
  /\ kw_added = ZeroScores
  /\ kw_pc = "loop"
  /\ InitStore
  /\ InitFetcher
  /\ InitNormalizer
  /\ InitContext
  /\ InitApp

NextScore == ScoreToken \/ Normalize

SpecScorer == InitScore /\ [][NextScore]_vars

InitOne ==
  /\ InitAnalyzer({NoPrimitive}, "idle", NoCall)
  /\ InitCombiner
  /\ InitScorer
  /\ InitStore
  /\ InitFetcher
  /\ InitNormalizer
  /\ InitContext
  /\ InitApp

NextStore == Insert \/ Get

SpecStore == InitOne /\ [][NextStore]_vars

NextFetch == FetchCall \/ TrySource \/ ReturnNone

SpecFetch == InitOne /\ [][NextFetch]_vars

(***************************************************************************)
(* Properties of analyze_sentiment (SpecAnalyze, Spec).                    *)
(***************************************************************************)
InUnitInterval(q) == QLeq(Zero, q) /\ QLeq(q, One)

\* C1: for every input that is absent, empty or shorter than 10 characters
\* once trimmed, the call returns without raising exactly the fixed neutral
\* result: primary neutral, no secondary, score 0.0, confidence 0.0, no
\* keywords, and an emotion vector with all six tags present at 0.0.
C1_DegenerateInputGivesNeutralWithSixZeroTags ==
  (pc # "running" /\ IsDegenerate(call.lyrics)) =>
    /\ pc = "returned"
    /\ result = <<[sentimento_primario |-> NEUTRO,
                   sentimento_secundario |-> NONE,
                   pontuacao_sentimento |-> Zero,
                   palavras_chave |-> <<>>,
                   confianca |-> Zero,
                   emocoes_detectadas |-> ZeroScores]>>

\* C2: every result returned has its final score and its confidence in
\* [0, 1], and no negative keyword score.
C2_ScoreAndConfidenceInUnitInterval ==
  pc = "returned" =>
    /\ InUnitInterval(result[1].pontuacao_sentimento)
    /\ InUnitInterval(result[1].confianca)
    /\ \A e \in DOMAIN result[1].emocoes_detectadas :
         QLeq(Zero, result[1].emocoes_detectadas[e])

\* A call whose keyword scores exceed 1.0, so that both limits apply.
C2_Witness ==
  /\ pc = "returned"
  /\ ~IsDegenerate(call.lyrics)
  /\ QLess(One, QMaxOf(result[1].emocoes_detectadas))
  /\ QLess(Zero, call.whole.subjectivity)
  /\ result[1].pontuacao_sentimento = One
  /\ result[1].confianca = One

(***************************************************************************)
(* Properties of _combine_analyses (SpecCombine).                          *)
(***************************************************************************)
\* The second-highest combined score: the highest among the tags other
\* than one that holds the highest.
SecondHighest(scores) ==
  CHOOSE v \in {scores[e] : e \in DOMAIN scores} :
    \E a \in DOMAIN scores :
      /\ scores[a] = QMaxOf(scores)
      /\ \E b \in DOMAIN scores \ {a} : scores[b] = v
      /\ \A e \in DOMAIN scores \ {a} : QLeq(scores[e], v)

NonZeroTags(scores) == {e \in DOMAIN scores : scores[e] # Zero}

\* C3: the primary emotion is neutral if and only if the highest combined
\* score is <= 0.1; otherwise it is the top-ranked tag, which holds that
\* highest score.
C3_PrimaryNeutralIffTopAtMostTenth ==
  comb_out # <<>> =>
    LET o == comb_out[1]
        top == QMaxOf(o.combined)
    IN  /\ (o.primary = NEUTRO) <=> QLeq(top, Q(1, 10))
        /\ o.primary # NEUTRO =>
             /\ o.primary \in Emotions
             /\ o.primary = o.sorted[1]
             /\ o.combined[o.primary] = top

\* The highest combined score is exactly 0.1 and the primary is neutral.
C3_Witness ==
  /\ comb_out # <<>>
  /\ QMaxOf(comb_out[1].combined) = Q(1, 10)
  /\ comb_out[1].primary = NEUTRO

\* C4: the secondary emotion is absent if and only if the second-ranked
\* combined score is <= 0.05 or fewer than two tags have a non-zero
\* combined score; otherwise it is the second-ranked tag.
C4_SecondaryAbsentIffSecondAtMostTwentieth ==
  comb_out # <<>> =>
    LET o == comb_out[1]
        second == SecondHighest(o.combined)
    IN  /\ (o.secondary = NONE) <=>
             \/ QLeq(second, Q(5, 100))
             \/ Cardinality(NonZeroTags(o.combined)) < 2
        /\ o.secondary # NONE =>
             /\ o.secondary \in Emotions
             /\ o.secondary = o.sorted[2]
             /\ o.secondary # o.sorted[1]
             /\ o.combined[o.secondary] = second

\* Two tags score, the second exactly 0.05, and there is no secondary.
C4_Witness ==
  /\ comb_out # <<>>
  /\ Cardinality(NonZeroTags(comb_out[1].combined)) = 2
  /\ SecondHighest(comb_out[1].combined) = Q(5, 100)
  /\ comb_out[1].primary # NEUTRO
  /\ comb_out[1].secondary = NONE

\* C5: the keyword list is the first 5 keywords of the primary emotion's
\* lexicon entry (nothing when the primary is neutral) followed by the first
\* 3 of the secondary's (nothing when it is absent); its length is <= 8.
C5_KeywordsAreFiveOfPrimaryThenThreeOfSecondary ==
  comb_out # <<>> =>
    LET o == comb_out[1]
        ofPrimary == IF o.primary = NEUTRO THEN <<>>
                     ELSE SubSeq(LoadEmotionKeywords[o.primary], 1, 5)
        ofSecondary == IF o.secondary = NONE THEN <<>>
                       ELSE SubSeq(LoadEmotionKeywords[o.secondary], 1, 3)
    IN  /\ o.keywords = ofPrimary \o ofSecondary
        /\ Len(o.keywords) <= 8

\* A result with a primary and a secondary emotion and 8 keywords.
C5_Witness ==
  /\ comb_out # <<>>
  /\ comb_out[1].primary # NEUTRO
  /\ comb_out[1].secondary # NONE
  /\ Len(comb_out[1].keywords) = 8

\* C6: after any sequence of calls, and any change callers make to the
\* results they were given, the lexicon and the intensifier table are as
\* loaded, and a call ends as the same call ends on a new analyzer.
C6_CallsLeaveNoTrace ==
  /\ emotion_keywords = LoadEmotionKeywords
  /\ intensifiers = LoadIntensifiers
  /\ pc \in {"returned", "raised"} =>
       \E fresh \in {analyze_sentiment(call.lyrics, call.whole, call.sents,
                                       LoadEmotionKeywords,
                                       LoadIntensifiers)} :
         /\ (pc = "raised") = fresh.raised
         /\ result = fresh.result

\* A call that returned keywords after a caller changed an earlier result.
C6_Witness ==
  /\ dirty
  /\ pc = "returned"
  /\ ~IsDegenerate(call.lyrics)
  /\ result[1].palavras_chave # <<>>

\* C7: when the primitive fails on the whole text or on any sentence of a
\* non-degenerate input, the call raises and returns nothing.
C7_PrimitiveFailurePropagates ==
  (/\ pc # "running"
   /\ ~IsDegenerate(call.lyrics)
   /\ \/ call.whole.fail
      \/ \E i \in 1..Len(call.sents) : call.sents[i].fail) =>
    /\ pc = "raised"
    /\ result = <<>>

\* The primitive answered on the whole text and on the first sentence and
\* failed on the second.
C7_Witness ==
  /\ pc = "raised"
  /\ ~call.whole.fail
  /\ Len(call.sents) >= 2
  /\ ~call.sents[1].fail
  /\ call.sents[2].fail
  /\ Len(prim_calls) = 3

(***************************************************************************)
(* Properties of the store (SpecStore).                                    *)
(***************************************************************************)
\* C8: there is at most one record per (titulo, artista), and
\* get_music_analysis returns the lyric, emotions, score and keywords of the
\* latest insert_music_analysis for the pair (nothing before the first).
C8_UpsertByTitleAndArtist ==
  \A k \in SongKeys :
    /\ Cardinality(RowsOf(musicas, k[1], k[2])) <= 1
    /\ LET got == get_music_analysis(musicas, k[1], k[2])
       IN  IF latest[k] = <<>> THEN got = <<>>
           ELSE /\ got # <<>>
                /\ got[1].titulo = k[1]
                /\ got[1].artista = k[2]
                /\ got[1].letra = latest[k][1].letra
                /\ got[1].sentimento_primario
                     = latest[k][1].sentimento_primario
                /\ got[1].sentimento_secundario
                     = latest[k][1].sentimento_secundario
                /\ got[1].pontuacao_sentimento
                     = latest[k][1].pontuacao_sentimento
                /\ got[1].palavras_chave = latest[k][1].palavras_chave

\* A record analysed again after a later record was first stored: its
\* date is later than that of a record with a higher id.
C8_Witness ==
  \E r \in musicas, o \in musicas :
    /\ r.id < o.id
    /\ o.data_analise < r.data_analise
    /\ db_ret = <<r>>

(***************************************************************************)
(* Properties of fetch_lyrics (SpecFetch).                                 *)
(***************************************************************************)
\* A provider yields when it returns a text of more than 50 characters
\* once trimmed.
Yields(out) ==
  /\ ~out.raises
  /\ ~out.none
  /\ Len(Strip(out.text)) > 50

\* C9: the providers are tried in the order azlyrics, genius, letras; the
\* next is tried exactly when the current one raised or yielded no text of
\* more than 50 trimmed characters; the call stops at the first that yields
\* and returns a text; it returns None only after all three have failed.
C9_ProvidersTriedInOrderUntilOneYields ==
  /\ Len(tried) = Len(outcomes)
  /\ Len(tried) <= 3
  /\ tried = SubSeq(<<"_fetch_from_azlyrics", "_fetch_from_genius",
                      "_fetch_from_letras">>, 1, Len(tried))
  /\ \A i \in 1..(Len(tried) - 1) : ~Yields(outcomes[i])
  /\ fetch_pc = "idle" => tried = <<>>
  /\ fetch_pc = "loop" => \A i \in 1..Len(tried) : ~Yields(outcomes[i])
  /\ fetch_pc = "done" =>
       IF Yields(outcomes[Len(outcomes)])
       THEN ~fetch_ret.none
       ELSE /\ fetch_ret.none
            /\ Len(tried) = 3

\* Two providers failed, one by raising and one by returning 50
\* characters between white space, and the third yielded.
C9_Witness ==
  /\ fetch_pc = "done"
  /\ Len(tried) = 3
  /\ outcomes[1].raises
  /\ ~outcomes[2].raises /\ Len(outcomes[2].text) > 50
  /\ ~fetch_ret.none
  /\ fetch_ret.text # <<>>

(***************************************************************************)
(* Properties of _analyze_emotion_keywords (SpecScorer).                   *)
(***************************************************************************)
\* The multiplier of the token at position i: the value of the
\* intensifier just before it, 1.0 without one.
MultiplierAt(words, i) ==
  IF i > 1 /\ words[i - 1] \in DOMAIN LoadIntensifiers
  THEN LoadIntensifiers[words[i - 1]] ELSE One

\* Every emotion whose list holds the token just scored received
\* factor x multiplier from it, the factor given per emotion and token.
LastTokenAdded(factor(_, _)) ==
  (kw_i > 1) =>
    \A e \in Emotions :
      kw_words[kw_i - 1] \in Range(LoadEmotionKeywords[e]) =>
        kw_added[e] = QMul(factor(e, kw_words[kw_i - 1]),
                           MultiplierAt(kw_words, kw_i - 1))

\* C10 as stated: a token equal to a keyword of an emotion's list adds
\* exactly 1.5 x multiplier to that emotion, for every keyword of every
\* emotion of the lexicon.
C10_ExactMatchAddsOneAndAHalf ==
  LastTokenAdded(LAMBDA e, w : Q(3, 2))

\* The keywords of an emotion that add more: 'triste' and 'tristeza'
\* contain or are contained in one another, 'medo' is contained in 'com
\* medo', and 'terror' and 'nostalgia' are listed twice.
DoubledKeywords ==
  [e \in Emotions |->
     CASE e = "tristeza" -> { <<116, 114, 105, 115, 116, 101>>,
                              <<116, 114, 105, 115, 116, 101, 122, 97>> }
       [] e = "medo" -> { <<109, 101, 100, 111>>,
                          <<116, 101, 114, 114, 111, 114>> }
       [] e = "nostalgia" -> { <<110, 111, 115, 116, 97, 108, 103, 105, 97>> }
       [] OTHER -> {}]

\* C10 amended: a token equal to a keyword of an emotion's list adds
\* exactly 1.5 x multiplier to that emotion, except 'triste' and 'tristeza'
\* (tristeza), 'medo' and 'terror' (medo) and 'nostalgia' (nostalgia), which
\* add exactly 2.0 x multiplier.
C10_ExactMatchAddsOneAndAHalfOrTwo ==
  LastTokenAdded(LAMBDA e, w : IF w \in DoubledKeywords[e]
                               THEN Q(2, 1) ELSE Q(3, 2))

\* 'terror' scored after an intensifier.
C10_Witness ==
  /\ kw_i = 3
  /\ kw_words[1] \in DOMAIN LoadIntensifiers
  /\ kw_words[2] = <<116, 101, 114, 114, 111, 114>>
  /\ kw_added["medo"] = QMul(Q(2, 1), LoadIntensifiers[kw_words[1]])

\* C11: the multiplier of the token at position i is the table value of
\* the token just before it when that token is an intensifier and 1.0
\* otherwise (also for the first token), never a product of several
\* intensifiers: the token adds to every emotion its contribution without
\* intensifier times that value.
C11_MultiplierIsThePrecedingIntensifierOnly ==
  (kw_i > 1) =>
    \A e \in Emotions :
      kw_added[e] =
        QMul(MultiplierAt(kw_words, kw_i - 1),
             TokenContribution(kw_words[kw_i - 1], One,
                               LoadEmotionKeywords[e]))

\* 'sad' scored after 'very extremely': it adds 1.8 x 1.5 to tristeza.
C11_Witness ==
  /\ kw_i = 4
  /\ kw_words = << <<118, 101, 114, 121>>,
                   <<101, 120, 116, 114, 101, 109, 101, 108, 121>>,
                   <<115, 97, 100>> >>
  /\ kw_added["tristeza"] = Q(27, 10)

(***************************************************************************)
(* One call of _preprocess_text on a raw text of up to MaxLines lines:     *)
(* empty, of 2, 3 and 4 characters once trimmed, with upper case, with an  *)
(* accented letter, with punctuation that is kept and that is replaced.    *)
(***************************************************************************)
MaxLines == 2

RawLines ==
  { <<>>,
    <<104, 105>>,                                    \* hi
    <<115, 97, 100>>,                                \* sad
    <<32, 32, 97, 98, 32>>,                          \* "  ab "
    <<83, 97, 100, 32, 100, 97, 121>>,               \* Sad day
    <<67, 114, 121, 33>>,                            \* Cry!
    <<40, 108, 97, 41>>,                             \* (la)
    <<84, 82, 200, 83, 32, 98, 105, 101, 110>> }     \* TRES bien, E grave

RawTexts ==
  {Join(ls, <<NL>>) : ls \in UNION {[1..n -> RawLines] : n \in 0..MaxLines}}

Preprocess ==
  /\ norm_out = <<>>
  /\ norm_out' = <<preprocess_text(norm_in)>>
  /\ UNCHANGED norm_in
  /\ UNCHANGED <<analyzer_vars, combiner_vars, scorer_vars, store_vars,
                 fetcher_vars, context_vars, app_vars>>

InitNormalize ==
  /\ InitAnalyzer({NoPrimitive}, "idle", NoCall)
  /\ InitCombiner
  /\ InitScorer
  /\ InitStore
  /\ InitFetcher
  /\ norm_in \in RawTexts
  /\ norm_out = <<>>
  /\ InitContext
  /\ InitApp

SpecNormalize == InitNormalize /\ [][Preprocess]_vars

\* A line that is kept: more than 3 characters once trimmed.
IsLongLine(line) == Len(Strip(line)) > 3

\* The raw text without its lines of 3 characters or fewer once trimmed.
WithoutShortLines(text) ==
  Join(SelectSeq(Split(text, NL), IsLongLine), <<NL>>)

\* C12: every line of the raw text whose trimmed length is <= 3 is dropped
\* and contributes nothing to the normalized output: the output is that of
\* the raw text without those lines, in lower case, its lines joined by
\* single spaces; the empty text gives the empty text.
C12_ShortLinesContributeNothing ==
  norm_out # <<>> =>
    /\ norm_out[1] = preprocess_text(WithoutShortLines(norm_in))
    /\ \A i \in 1..Len(norm_out[1]) :
         /\ norm_out[1][i] # NL
         /\ norm_out[1][i] = Lower(norm_out[1][i])
    /\ norm_in = <<>> => norm_out[1] = <<>>

(***************************************************************************)
(* Further properties of _combine_analyses (SpecCombine).                  *)
(***************************************************************************)
\* The boost of a tag for an overall polarity.
Boost(e, polarity) ==
  IF QLess(polarity, Q(-2, 10))
  THEN CASE e = "tristeza" -> Q(13, 10)
         [] e = "raiva" -> Q(12, 10)
         [] OTHER -> One
  ELSE IF QLess(Q(2, 10), polarity)
  THEN CASE e = "felicidade" -> Q(13, 10)
         [] e = "esperanca" -> Q(12, 10)
         [] OTHER -> One
  ELSE One

\* C13: the combined score of every tag e is keyword[e] x 0.7 + context[e]
\* x 0.3, times 1.3 (tristeza) or 1.2 (raiva) when the polarity is < -0.2,
\* times 1.3 (felicidade) or 1.2 (esperanca) when it is > 0.2, and times 1
\* for every other tag and for a polarity in [-0.2, 0.2], bounds included.
C13_BlendThenBoostByPolarity ==
  comb_out # <<>> =>
    \A e \in Emotions :
      comb_out[1].combined[e] =
        QMul(QAdd(QMul(comb_in.emotion_scores[e], Q(7, 10)),
                  QMul(comb_in.context_scores[e], Q(3, 10))),
             Boost(e, comb_in.polarity))

\* A call at the boundary -0.2 with a keyword and a context score for
\* tristeza: no boost.
C13_Witness ==
  /\ comb_out # <<>>
  /\ comb_in.polarity = Q(-1, 5)
  /\ comb_in.emotion_scores["tristeza"] = Q(2, 1)
  /\ comb_in.context_scores["tristeza"] = Q(1, 2)
  /\ comb_out[1].combined["tristeza"] = Q(31, 20)

\* The lexicon's order of the tags: sadness, anger, happiness, fear, hope,
\* nostalgia.
TagRank ==
  [e \in Emotions |->
     CASE e = "tristeza" -> 1
       [] e = "raiva" -> 2
       [] e = "felicidade" -> 3
       [] e = "medo" -> 4
       [] e = "esperanca" -> 5
       [] e = "nostalgia" -> 6]

\* C14: the six tags are ranked by combined score in descending order, and
\* of two tags with equal score the one earlier in the lexicon's order is
\* ranked first; the primary is the first of the ranking or neutral, the
\* secondary the second or absent.
C14_RankedByScoreThenLexiconOrder ==
  comb_out # <<>> =>
    LET o == comb_out[1]
    IN  /\ Len(o.sorted) = 6
        /\ Range(o.sorted) = Emotions
        /\ \A i \in 1..6 : \A j \in (i + 1)..6 :
             /\ QLeq(o.combined[o.sorted[j]], o.combined[o.sorted[i]])
             /\ o.combined[o.sorted[j]] = o.combined[o.sorted[i]] =>
                  TagRank[o.sorted[i]] < TagRank[o.sorted[j]]
        /\ o.primary \in {NEUTRO, o.sorted[1]}
        /\ o.secondary \in {NONE, o.sorted[2]}

\* raiva and medo share the highest score: raiva is the primary and medo
\* the secondary.
C14_Witness ==
  /\ comb_out # <<>>
  /\ comb_out[1].combined["raiva"] = comb_out[1].combined["medo"]
  /\ comb_out[1].combined["raiva"] = QMaxOf(comb_out[1].combined)
  /\ comb_out[1].primary = "raiva"
  /\ comb_out[1].secondary = "medo"

\* C17: a result whose primary emotion is neutral has no secondary emotion
\* and no keyword.
C17_NeutralPrimaryHasNoSecondary ==
  (comb_out # <<>> /\ comb_out[1].primary = NEUTRO) =>
    /\ comb_out[1].secondary = NONE
    /\ comb_out[1].keywords = <<>>

(***************************************************************************)
(* One call of _analyze_context on a text of up to MaxSentences sentences, *)
(* the primitive's polarity of each taken from both ends of [-1, 1], the   *)
(* two thresholds -0.3 and 0.3, and values on each side of them.           *)
(***************************************************************************)
MaxSentences == 2

SentencePolarities ==
  {Q(-1, 1), Q(-1, 2), Q(-3, 10), Q(0, 1), Q(3, 10), Q(1, 2), Q(1, 1)}

ContextInputs ==
  UNION {[1..n -> SentencePolarities] : n \in 0..MaxSentences}

\* Lines 165-178 for the sentence at position ctx_i.
ContextSentence ==
  /\ ctx_i <= Len(ctx_polarities)
  /\ ctx_scores' = ContextStep(ctx_scores, ctx_polarities[ctx_i])
  /\ ctx_added' = ContextStep(ZeroScores, ctx_polarities[ctx_i])
  /\ ctx_i' = ctx_i + 1
  /\ UNCHANGED ctx_polarities
  /\ UNCHANGED <<analyzer_vars, combiner_vars, scorer_vars, store_vars,
                 fetcher_vars, normalizer_vars, app_vars>>

InitContextCall ==
  /\ InitAnalyzer({NoPrimitive}, "idle", NoCall)
  /\ InitCombiner
  /\ InitScorer
  /\ InitStore
  /\ InitFetcher
  /\ InitNormalizer
  /\ ctx_polarities \in ContextInputs
  /\ ctx_i = 1
  /\ ctx_scores = ZeroScores
  /\ ctx_added = ZeroScores
  /\ InitApp

SpecContext == InitContextCall /\ [][ContextSentence]_vars

\* What a sentence of polarity p adds to the tag e.
BucketShare(e, p) ==
  IF QLess(p, Q(-3, 10))
  THEN CASE e = "tristeza" -> QAbs(p)
         [] e = "raiva" -> QMul(Q(1, 2), QAbs(p))
         [] OTHER -> Zero
  ELSE IF QLess(Q(3, 10), p)
  THEN CASE e = "felicidade" -> p
         [] e = "esperanca" -> QMul(Q(7, 10), p)
         [] OTHER -> Zero
  ELSE IF e = "nostalgia" THEN Q(1, 10) ELSE Zero

\* The sum of the shares of the first n sentences.
BucketSum(e, polarities, n) ==
  LET f[i \in 0..n] ==
        IF i = 0 THEN Zero ELSE QAdd(f[i - 1], BucketShare(e, polarities[i]))
  IN  f[n]

\* C15: a sentence of polarity p < -0.3 adds |p| to tristeza and 0.5 x |p|
\* to raiva; p > 0.3 adds p to felicidade and 0.7 x p to esperanca; every
\* other p, -0.3 and 0.3 included, adds 0.1 to nostalgia; nothing else is
\* added, medo stays at 0.0, and the scores are the plain sums over the
\* sentences, not divided by their number.
C15_OneBucketPerSentence ==
  /\ ctx_i > 1 =>
       \A e \in Emotions :
         ctx_added[e] = BucketShare(e, ctx_polarities[ctx_i - 1])
  /\ \A e \in Emotions :
       ctx_scores[e] = BucketSum(e, ctx_polarities, ctx_i - 1)
  /\ ctx_scores["medo"] = Zero

\* Two sentences of polarities -0.3 and 0.3: nostalgia is at 0.2 and the
\* other tags at 0.0.
C15_Witness ==
  /\ ctx_polarities = <<Q(-3, 10), Q(3, 10)>>
  /\ ctx_i = 3
  /\ ctx_scores = [ZeroScores EXCEPT !["nostalgia"] = Q(1, 5)]

(***************************************************************************)
(* Further properties of analyze_sentiment (SpecAnalyze).                  *)
(***************************************************************************)
\* The normalized text of the call and its sentences.
NormalizedText == preprocess_text(call.lyrics.text)

\* C16: a call on an absent, empty or short input never calls the
\* primitive; any other call that returns has called it exactly once on the
\* whole normalized text and then exactly once on each sentence of that
\* text, in order; a call that raises stopped in that sequence at the call
\* that failed.
C16_PrimitiveCalledOnceOnTextThenOncePerSentence ==
  /\ (pc # "running" /\ IsDegenerate(call.lyrics)) => prim_calls = <<>>
  /\ (pc = "returned" /\ ~IsDegenerate(call.lyrics)) =>
       /\ Len(prim_calls) = 1 + Len(sent_tokenize(NormalizedText))
       /\ prim_calls[1] = NormalizedText
       /\ SubSeq(prim_calls, 2, Len(prim_calls))
            = sent_tokenize(NormalizedText)
  /\ pc = "raised" =>
       /\ prim_calls # <<>>
       /\ prim_calls[1] = NormalizedText
       /\ SubSeq(prim_calls, 2, Len(prim_calls))
            = SubSeq(sent_tokenize(NormalizedText), 1, Len(prim_calls) - 1)
       /\ IF Len(prim_calls) = 1
          THEN call.whole.fail
          ELSE call.sents[Len(prim_calls) - 1].fail

\* A call on a text of two sentences that returned: three calls.
C16_Witness ==
  /\ pc = "returned"
  /\ Len(sent_tokenize(NormalizedText)) = 2
  /\ Len(prim_calls) = 3
  /\ prim_calls[1] # prim_calls[2]

(***************************************************************************)
(* The application: MusicMoodAnalyzer.analyze_song, on the store, the      *)
(* fetcher and the analyzer above.                                         *)
(***************************************************************************)
\* round(x, digits) for scale = 10^digits: the nearest multiple of 1/scale,
\* a tie going to the even one.
Round(q, scale) ==
  LET n == q[1] * scale
      m == n \div q[2]
      r == n - m * q[2]
  IN  IF 2 * r < q[2] THEN Q(m, scale)
      ELSE IF 2 * r > q[2] THEN Q(m + 1, scale)
      ELSE IF m % 2 = 0 THEN Q(m, scale)
      ELSE Q(m + 1, scale)

MaxLetraLen == 500

\* s[:500] + '...' if len(s) > 500 else s
Truncated(letra) ==
  IF Len(letra) > MaxLetraLen
  THEN SubSeq(letra, 1, MaxLetraLen) \o <<46, 46, 46>>
  ELSE letra

CommaSpace == <<44, 32>>

\* s.split(', ')
SplitCommaSpace(s) ==
  LET c == Ascending({i \in 1..(Len(s) - 1) : s[i] = 44 /\ s[i + 1] = 32})
      n == Len(c)
  IN  AsTuple([k \in 1..(n + 1) |->
                 SubSeq(s, IF k = 1 THEN 1 ELSE c[k - 1] + 2,
                        IF k = n + 1 THEN Len(s) ELSE c[k] - 1)])

\* LyricsFetcher.fetch_lyrics as a whole: providers[i] is what the i-th
\* source does when called.
fetch_lyrics(providers) ==
  LET hits == {i \in 1..Len(providers) :
                 ~providers[i].raises /\ HasEnoughContent(providers[i])}
  IN  IF hits = {} THEN [none |-> TRUE, text |-> <<>>]
      ELSE [none |-> FALSE,
            text |-> clean_lyrics(
                       providers[CHOOSE i \in hits :
                                   \A j \in hits : i <= j].text)]

\* _generate_summary: the parts the summary string is made of.
generate_summary(sentiment_result) ==
  [primary |-> sentiment_result.sentimento_primario,
   percent |-> Round(QMul(sentiment_result.pontuacao_sentimento, Q(100, 1)),
                     10),
   confidence |-> IF QLess(Q(7, 10), sentiment_result.confianca)
                  THEN "Alta confianca"
                  ELSE IF QLess(Q(4, 10), sentiment_result.confianca)
                  THEN "Confianca moderada"
                  ELSE "Baixa confianca",
   keywords |-> Take(Take(sentiment_result.palavras_chave, 5), 3)]

\* A variant of _format_analysis_result that returns the score as stored,
\* without round(..., 3).
format_analysis_result_unrounded(db_result) ==
  [id |-> db_result.id,
   titulo |-> db_result.titulo,
   artista |-> db_result.artista,
   letra_encontrada |-> TRUE,
   letra |-> Truncated(db_result.letra),
   sentimento_primario |-> db_result.sentimento_primario,
   sentimento_secundario |-> db_result.sentimento_secundario,
   pontuacao_sentimento |-> db_result.pontuacao_sentimento,
   palavras_chave |-> IF db_result.palavras_chave # <<>>
                      THEN Take(SplitCommaSpace(db_result.palavras_chave), 10)
                      ELSE <<>>,
   data_analise |-> db_result.data_analise,
   resumo |-> [primary |-> db_result.sentimento_primario,
               percent |-> Round(QMul(db_result.pontuacao_sentimento,
                                      Q(100, 1)), 10)]]

\* _format_analysis_result: the dict made of a row of the store.
format_analysis_result(db_result) ==
  [id |-> db_result.id,
   titulo |-> db_result.titulo,
   artista |-> db_result.artista,
   letra_encontrada |-> TRUE,
   letra |-> Truncated(db_result.letra),
   sentimento_primario |-> db_result.sentimento_primario,
   sentimento_secundario |-> db_result.sentimento_secundario,
   pontuacao_sentimento |-> Round(db_result.pontuacao_sentimento, 1000),
   palavras_chave |-> IF db_result.palavras_chave # <<>>
                      THEN Take(SplitCommaSpace(db_result.palavras_chave), 10)
                      ELSE <<>>,
   data_analise |-> db_result.data_analise,
   resumo |-> [primary |-> db_result.sentimento_primario,
               percent |-> Round(QMul(db_result.pontuacao_sentimento,
                                      Q(100, 1)), 10)]]

\* Lines 31-36.
NotFoundResult(song_title, artist) ==
  [erro |-> "Letra nao encontrada",
   titulo |-> song_title,
   artista |-> artist,
   letra_encontrada |-> FALSE]

\* Lines 58-71.
fresh_result(music_id, song_title, artist, lyrics, sentiment_result) ==
  [id |-> music_id,
   titulo |-> song_title,
   artista |-> artist,
   letra_encontrada |-> TRUE,
   letra |-> Truncated(lyrics),
   sentimento_primario |-> sentiment_result.sentimento_primario,
   sentimento_secundario |-> sentiment_result.sentimento_secundario,
   pontuacao_sentimento |->
     Round(sentiment_result.pontuacao_sentimento, 1000),
   confianca |-> Round(sentiment_result.confianca, 1000),
   palavras_chave |-> Take(sentiment_result.palavras_chave, 10),
   emocoes_detectadas |->
     [k \in DOMAIN sentiment_result.emocoes_detectadas |->
        Round(sentiment_result.emocoes_detectadas[k], 1000)],
   resumo |-> generate_summary(sentiment_result)]

\* A variant of line 30 with `if lyrics is None`.
lyrics_missing_none_only(fetched) == fetched.none

\* Line 30, `if not lyrics`: fetch_lyrics returned None or an empty text.
lyrics_missing(fetched) == fetched.none \/ fetched.text = <<>>

\* The call self.sentiment_analyzer.analyze_sentiment(lyrics) of line 42,
\* the primitive answering prim.whole on the whole text and prim.sentence
\* on every sentence.
analyze_lyrics(text, prim, lex, inten) ==
  analyze_sentiment([absent |-> FALSE, text |-> text], prim.whole,
                    [i \in 1..Len(SentencesOf([absent |-> FALSE,
                                               text |-> text])) |->
                       prim.sentence],
                    lex, inten)

\* Lines 45-55: the analysis handed to insert_music_analysis.
analysis_to_store(lyrics, sentiment_result) ==
  [letra |-> lyrics,
   sentimento_primario |-> sentiment_result.sentimento_primario,
   sentimento_secundario |-> sentiment_result.sentimento_secundario,
   pontuacao_sentimento |-> sentiment_result.pontuacao_sentimento,
   palavras_chave |-> Join(Take(sentiment_result.palavras_chave, 10),
                           CommaSpace)]

\* analyze_song.  analysis is what analyze_sentiment does with the lyrics
\* fetched, if it is called.  The outcome: the table and the counter
\* afterwards, whether the call raised, the dict returned (length 0 or 1),
\* what was done in order, the analysis stored (length 0 or 1) and the
\* lexicon afterwards.
analyze_song(rows, seq, song_title, artist, force_refresh, fetched, analysis, now) ==
  LET existing == IF force_refresh THEN <<>>
                  ELSE get_music_analysis(rows, song_title, artist)
      looked == IF force_refresh THEN <<>> ELSE <<"get">>
  IN  IF existing # <<>>
      THEN [musicas |-> rows, seq |-> seq, raised |-> FALSE,
            ret |-> <<format_analysis_result(existing[1])>>,
            events |-> looked, stored |-> <<>>]
      ELSE IF lyrics_missing(fetched)
      THEN [musicas |-> rows, seq |-> seq, raised |-> FALSE,
            ret |-> <<NotFoundResult(song_title, artist)>>,
            events |-> looked \o <<"fetch">>, stored |-> <<>>]
      ELSE IF analysis.raised
      THEN [musicas |-> rows, seq |-> seq, raised |-> TRUE,
            ret |-> <<>>,
            events |-> looked \o <<"fetch", "analyze">>, stored |-> <<>>]
      ELSE
        Eval(analysis_to_store(fetched.text, analysis.result[1]),
             LAMBDA a :
        Eval(insert_music_analysis(rows, seq, song_title, artist, a, now),
             LAMBDA db :
          [musicas |-> db.musicas, seq |-> db.seq, raised |-> FALSE,
           ret |-> <<fresh_result(db.id, song_title, artist, fetched.text,
                                  analysis.result[1])>>,
           events |-> looked \o <<"fetch", "analyze", "insert">>,
           stored |-> <<a>>]))

(***************************************************************************)
(* The inputs of analyze_song: two songs; providers that all fail, that    *)
(* yield a text of the keyword 'sad', a text without keyword, or a text    *)
(* that is one bracketed tag and is empty once cleaned; a primitive that   *)
(* answers, one that fails on the whole text and one that fails on a       *)
(* sentence.                                                               *)
(***************************************************************************)
AppKeys == {<<"Hurt", "Johnny Cash">>, <<"Imagine", "John Lennon">>}

SadSong == Join([i \in 1..13 |-> <<115, 97, 100>>], <<SP>>)

PlainSong == Join([i \in 1..18 |-> <<113, 113>>], <<SP>>)

TagOnlySong == <<91>> \o Repeat(97, 51) \o <<93>>

Raises == [raises |-> TRUE, none |-> TRUE, text |-> <<>>]

AppProviders ==
  { <<Raises, NoText, Text(Repeat(97, 50))>>,
    <<Text(SadSong), Raises, Raises>>,
    <<Raises, Text(PlainSong), Text(SadSong)>>,
    <<NoText, Raises, Text(TagOnlySong)>> }

AppPrimitives ==
  { [whole |-> [fail |-> FALSE, polarity |-> Q(-3, 8),
                subjectivity |-> Q(1, 2)],
     sentence |-> [fail |-> FALSE, polarity |-> Q(-3, 8),
                   subjectivity |-> Q(1, 2)]],
    [whole |-> [fail |-> FALSE, polarity |-> Q(0, 1),
                subjectivity |-> Q(0, 1)],
     sentence |-> NoAnswer],
    [whole |-> NoAnswer, sentence |-> NoAnswer] }

SongCalls ==
  [titulo : {k[1] : k \in AppKeys}, artista : {k[2] : k \in AppKeys},
   force_refresh : BOOLEAN, providers : AppProviders,
   primitive : AppPrimitives, now : 0..MaxTime]

\* What fetch_lyrics returns for each of the providers.
FetchedLyrics == [p \in AppProviders |-> fetch_lyrics(p)]

\* The analyses of the texts the providers yield, on the tables as loaded.
LoadedAnalyses ==
  [t \in {FetchedLyrics[p].text : p \in AppProviders} |->
     [prim \in AppPrimitives |->
        analyze_lyrics(t, prim, LoadEmotionKeywords, LoadIntensifiers)]]

\* One call of analyze_song, at a time not before the last one.
AnalyzeSong ==
  \E c \in SongCalls :
    /\ <<c.titulo, c.artista>> \in AppKeys
    /\ c.now >= clock
    /\ \E fetched \in {FetchedLyrics[c.providers]} :
       \E analysis \in
            {IF /\ emotion_keywords = LoadEmotionKeywords
                /\ intensifiers = LoadIntensifiers
             THEN LoadedAnalyses[fetched.text][c.primitive]
             ELSE analyze_lyrics(fetched.text, c.primitive,
                                 emotion_keywords, intensifiers)} :
       \E out \in {analyze_song(musicas, sqlite_sequence, c.titulo,
                                c.artista, c.force_refresh, fetched,
                                analysis, c.now)} :
         /\ musicas' = out.musicas
         /\ sqlite_sequence' = out.seq
         /\ clock' = c.now
         /\ latest' = IF out.stored = <<>> THEN latest
                      ELSE [latest EXCEPT ![<<c.titulo, c.artista>>] =
                              out.stored]
         /\ emotion_keywords' =
              IF "analyze" \in Range(out.events)
              THEN analysis.emotion_keywords ELSE emotion_keywords
         /\ song_call' = c
         /\ song_out' = out.ret
         /\ song_events' = out.events
         /\ song_before' = musicas
    /\ UNCHANGED <<intensifiers, primitive, pc, call, result, alias,
                   prim_calls, dirty, db_ret>>
    /\ UNCHANGED <<combiner_vars, scorer_vars, fetcher_vars,
                   normalizer_vars, context_vars>>

SpecApp == InitOne /\ [][AnalyzeSong]_vars

(***************************************************************************)
(* Properties of analyze_song (SpecApp).                                   *)
(***************************************************************************)
\* A call of analyze_song has been made.
SongCalled == song_call # NoSongCall

\* The last call returned a dict without the key 'erro'.
ReturnedNonError == song_out # <<>> /\ "erro" \notin DOMAIN song_out[1]

\* The last call found a record of its song in the store and was not told
\* to refresh it.
ServedFromStore ==
  /\ SongCalled
  /\ ~song_call.force_refresh
  /\ get_music_analysis(song_before, song_call.titulo,
                        song_call.artista) # <<>>

\* C18: every non-error result of analyze_song, freshly computed or served
\* from the store, has the fields 'confianca' and 'emocoes_detectadas'
\* that print_analysis_result reads.
C18_EveryResultHasConfidenceAndEmotionVector ==
  ReturnedNonError =>
    {"confianca", "emocoes_detectadas"} \subseteq DOMAIN song_out[1]

\* What fetch_lyrics returned in the last call is None or the empty text.
NoLyricsFound ==
  \/ FetchedLyrics[song_call.providers].none
  \/ FetchedLyrics[song_call.providers].text = <<>>

\* The last call found its record in the store: it fetched nothing,
\* analysed nothing and wrote nothing, and the emotions and the keywords
\* it returned are those of the record.
ServedWithoutWork ==
  LET row == get_music_analysis(song_before, song_call.titulo,
                                song_call.artista)[1]
  IN  /\ song_events = <<"get">>
      /\ musicas = song_before
      /\ ReturnedNonError
      /\ song_out[1].sentimento_primario = row.sentimento_primario
      /\ song_out[1].sentimento_secundario = row.sentimento_secundario
      /\ Join(song_out[1].palavras_chave, CommaSpace) = row.palavras_chave

\* C19 as stated: a call without force_refresh that finds a record of its
\* song in the store fetches nothing, analyses nothing and writes nothing,
\* and returns the emotions, the score and the keywords of the record; a
\* call with force_refresh always fetches and analyses.
C19_StoredRecordServedAsIsAndRefreshAnalyses ==
  /\ ServedFromStore =>
        /\ ServedWithoutWork
        /\ song_out[1].pontuacao_sentimento
             = get_music_analysis(song_before, song_call.titulo,
                                  song_call.artista)[1].pontuacao_sentimento
  /\ (SongCalled /\ song_call.force_refresh) =>
        /\ "fetch" \in Range(song_events)
        /\ "analyze" \in Range(song_events)

\* C19 amended: a call without force_refresh that finds a record of its
\* song in the store fetches nothing, analyses nothing and writes nothing,
\* and returns the emotions and the keywords of the record and its score
\* rounded to 3 decimals; a call with force_refresh never reads the store
\* and always fetches, and it analyses exactly when lyrics were found.
C19_StoredRecordServedRoundedAndRefreshFetches ==
  /\ ServedFromStore =>
        /\ ServedWithoutWork
        /\ song_out[1].pontuacao_sentimento
             = Round(get_music_analysis(song_before, song_call.titulo,
                                        song_call.artista)[1]
                       .pontuacao_sentimento, 1000)
  /\ (SongCalled /\ song_call.force_refresh) =>
        /\ song_events[1] = "fetch"
        /\ ("analyze" \in Range(song_events)) <=> ~NoLyricsFound

\* A record with a score of more than 3 decimals and 8 keywords is served
\* from the store to a call whose sources would have found other lyrics.
C19_Witness ==
  /\ ServedFromStore
  /\ song_events = <<"get">>
  /\ ~NoLyricsFound
  /\ Len(song_out[1].palavras_chave) = 8
  /\ song_out[1].pontuacao_sentimento = Q(146, 1000)
  /\ \E r \in musicas :
       /\ r.id = song_out[1].id
       /\ r.pontuacao_sentimento = Q(14625, 100000)
       /\ r.letra # FetchedLyrics[song_call.providers].text

\* analyze_sentiment raises on the lyrics fetched in the last call: the
\* primitive fails on the whole text or on a sentence.
AnalysisRaises ==
  LoadedAnalyses[FetchedLyrics[song_call.providers].text]
                [song_call.primitive].raised

\* C20: analyze_song writes to the store only after it fetched lyrics and
\* analyze_sentiment returned a result; when fetch_lyrics yields no lyrics
\* the call returns the 'Letra nao encontrada' error value, when the
\* analysis raises the call raises, and in both cases the table is exactly
\* what it was before the call, earlier records included.
C20_StoreWrittenOnlyAfterFetchAndAnalysis ==
  SongCalled =>
    /\ "insert" \in Range(song_events) =>
          /\ Len(song_events) >= 3
          /\ SubSeq(song_events, Len(song_events) - 2, Len(song_events))
               = <<"fetch", "analyze", "insert">>
          /\ ~NoLyricsFound
          /\ ~AnalysisRaises
          /\ ReturnedNonError
    /\ "insert" \notin Range(song_events) => musicas = song_before
    /\ ("fetch" \in Range(song_events) /\ NoLyricsFound) =>
          /\ song_out = <<NotFoundResult(song_call.titulo,
                                         song_call.artista)>>
          /\ musicas = song_before
    /\ ("fetch" \in Range(song_events) /\ ~NoLyricsFound
          /\ AnalysisRaises) =>
          /\ song_out = <<>>
          /\ musicas = song_before

\* A refresh of a song that has a record: the analysis raised on a
\* sentence and the record is as it was.
C20_Witness ==
  /\ SongCalled
  /\ song_call.force_refresh
  /\ song_events = <<"fetch", "analyze">>
  /\ ~song_call.primitive.whole.fail
  /\ song_call.primitive.sentence.fail
  /\ song_out = <<>>
  /\ get_music_analysis(song_before, song_call.titulo,
                        song_call.artista) # <<>>
  /\ get_music_analysis(musicas, song_call.titulo, song_call.artista)
       = get_music_analysis(song_before, song_call.titulo,
                            song_call.artista)

====
